---- MODULE Spec2Model ----
(***************************************************************************)
(* A model of the GPPN payment overlay's long-lived transaction kernels:   *)
(*   - the Payment-Message state machine   (gppn-core/state_machine.rs)    *)
(*   - the internal double-entry ledger    (gppn-settlement/internal.rs)   *)
(*   - the settlement manager              (gppn-settlement/manager.rs)    *)
(*   - the Hash Time-Locked Contract engine (gppn-settlement/htlc.rs)      *)
(* Each kernel has its own next-state relation and specification; the      *)
(* variables of the other kernels stay at their initial values. The ledger *)
(* and the HTLC engine are modelled twice: call by call, and step by step  *)
(* under two concurrent tasks.                                             *)
(***************************************************************************)
EXTENDS Integers, Sequences, FiniteSets, TLC

\* Number of events fed to one payment.
MaxEvents == 3

\* Number of settlements the internal adapter is asked to initiate.
MaxSettlements == 2

\* Width in bits of the ledger's integers. The code has u128 amounts and i128
\* balances; the model keeps the two's-complement arithmetic at a width TLC
\* can enumerate.
BalanceBits == 3

\* Number of ledger entries. A confirm that panics leaves its settlement
\* Initiated, so it can be repeated, and the ledger grows, without end.
MaxLedger == 4

\* Number of HTLCs the manager is asked to create.
MaxHtlcs == 1

\* Number of calls that tasks make on the HTLCs.
MaxHtlcCalls == 2

\* Number of settlements asked of the settlement manager.
MaxManaged == 1

\* Capacity of the command channel: mpsc::channel(256) in the code.
CommandCapacity == 1

\* Number of commands one submitter sends.
MaxCommands == 2

\* Number of entries in the routing table.
MaxEntries == 3

\* The largest number of routes asked of find_routes.
MaxRoutes == 2

\* The largest hop limit a path finder or an ingest is given.
MaxHopLimit == 2

\* Width in bits of a hop count, a u32 in the code.
HopBits == 2

\* The largest number of destinations in one advertisement.
MaxAnnounced == 2

\* Number of calls one task makes on the routing table.
MaxTableCalls == 2

\* The number of calls each task makes on the credential verifier.
MaxVerifierCalls == 2

\* The number of events applied to a credential.
MaxCredentialEvents == 5

\* Capacity of the network event channel, 256 in the code.
EventChannelCapacity == 1

\* The number of events the network task sends.
MaxBroadcast == 3

\* The largest sequence number a node of the chain gives an advertisement.
MaxSequence == 2

\* The number of calls made on the trust graph.
MaxGraphCalls == 3

\* The number of payments one client of the admin API sends.
MaxPayments == 1

\* The largest number of connections established with one peer.
MaxEstablished == 2

VARIABLES
    pm_state,   \* PaymentMessage.state of the payment being driven
    pm_last,    \* the last call of transition: its arguments and its result
    pm_steps,   \* number of events applied so far
    overflow_checks, \* build profile: arithmetic overflow panics (debug) or wraps
    settlements,     \* InternalAdapter.settlements: id -> InternalSettlement
    ledger,          \* InternalAdapter.ledger: the LedgerEntry values
    balances,        \* InternalAdapter.balances: balance key -> i128
    ret,             \* the last call that ended, and how
    lg_prev,         \* the balances before that call
    lg_pre,          \* per settlement: the parties' balances before its confirm
    lg_task,         \* per task: where it is in a confirm or rollback call
    adapters,        \* SettlementManager.adapters: the registered adapter ids
    htlcs,           \* HtlcManager.htlcs: id -> Htlc
    ht_log,          \* per HTLC: the calls tasks completed on it, in order
    ht_task,         \* per task: where it is in a claim, refund or check_expiry
    nw_run,          \* where the GppnNode is: with its owner, in its task, gone
    nw_swarm,        \* GppnNode.swarm is Some
    nw_connected,    \* GppnNode.connected_peers holds the peer
    nw_shutdown_tx,  \* GppnNode.shutdown_tx is Some
    nw_shutdown_sig, \* the shutdown channel holds the signal
    nw_command_rx,   \* the command receiver: in the node, in the loop, dropped
    nw_queue,        \* the commands in the command channel, by submitter
    nw_reply,        \* per submitter: the one-shot reply channel of its command
    nw_sub,          \* per submitter: where it is, and what it has seen
    drt,             \* DistributedRoutingTable.table: RouteKey -> RouteEntry
    pf_config,       \* PathFinder.config
    dt_task,         \* per task: where it is in a call on the routing table
    vr_trusted,      \* CredentialVerifier.trusted_issuers: issuer -> PublicKey
    vr_task,         \* per task: where it is in a call on the verifier
    cs_state,        \* the CredentialState of the credential being driven
    cs_trace,        \* the states the credential has been in, oldest first
    ev_loop,         \* GppnFullNode::run: where the main event loop is
    ev_buffer,       \* the events sent on the event channel, oldest first
    ev_next,         \* event_rx: how many events it has received or missed
    ev_closed,       \* the event channel's sender is dropped
    ev_log,          \* what the main event loop has logged, oldest first
    ev_peers,        \* NodeState.peers
    ev_established,  \* the swarm: the number of connections established with B
    ev_connected,    \* GppnNode.connected_peers, in the network task
    tg_edges,        \* TrustGraph.edges: (from, to) -> TrustEdge
    tg_calls,        \* the number of calls made on the trust graph
    ap_client,       \* client of the admin API -> its request, once it made one
    ap_queue,        \* the NodeCommand channel: the clients whose command waits
    ap_loop,         \* the main loop, as far as commands go
    rl_drt,          \* the routing tables of the chain: node -> table, if any entry
    rl_wire,         \* the advertisements published so far
    rl_newest        \* node -> the newest advertisement it has ingested, if any

pm_vars == <<pm_state, pm_last, pm_steps>>

lg_store == <<settlements, ledger, balances>>

lg_vars ==
    <<overflow_checks, settlements, ledger, balances, lg_prev, lg_pre, lg_task>>

ht_vars == <<htlcs, ht_log, ht_task>>

nw_vars == <<nw_run, nw_swarm, nw_connected, nw_shutdown_tx, nw_shutdown_sig,
             nw_command_rx, nw_queue, nw_reply, nw_sub>>

rt_vars == <<drt, pf_config>>

dt_vars == <<dt_task>>

vr_vars == <<vr_trusted, vr_task>>

cs_vars == <<cs_state, cs_trace>>

\* The network task's side of the connections.
ev_net == <<ev_established, ev_connected>>

ev_vars == <<ev_loop, ev_buffer, ev_next, ev_closed, ev_log, ev_peers, ev_net>>

tg_vars == <<tg_edges, tg_calls>>

ap_vars == <<ap_client, ap_queue, ap_loop>>

\* The state of the admin API and of what was modelled after it.
rl_vars == <<rl_drt, rl_wire, rl_newest>>

late_vars == <<ap_vars, rl_vars>>

\* The state beside the payment, settlement, network and routing state.
ext_vars == <<dt_vars, vr_vars, cs_vars, ev_vars, tg_vars, late_vars>>

vars == <<pm_state, pm_last, pm_steps,
          overflow_checks, settlements, ledger, balances,
          ret, lg_prev, lg_pre, lg_task, adapters, htlcs, ht_log, ht_task,
          nw_run, nw_swarm, nw_connected, nw_shutdown_tx, nw_shutdown_sig,
          nw_command_rx, nw_queue, nw_reply, nw_sub, drt, pf_config,
          dt_task, vr_trusted, vr_task, cs_state, cs_trace,
          ev_loop, ev_buffer, ev_next, ev_closed, ev_log, ev_peers,
          ev_established, ev_connected, tg_edges,
          tg_calls, ap_client, ap_queue, ap_loop,
          rl_drt, rl_wire, rl_newest>>

(***************************************************************************)
(* Payment-Message state machine                                           *)
(***************************************************************************)

PaymentState ==
    {"Created", "Routed", "Accepted", "Settling",
     "Settled", "Failed", "Expired", "Cancelled"}

PaymentEvent ==
    {"RouteFound", "Accepted", "SettlementStarted", "SettlementConfirmed",
     "SettlementFailed", "Expired", "Cancelled", "RetryRoute"}

is_final(s) == s \in {"Settled", "Expired", "Cancelled"}

\* The `to` field of the InvalidStateTransition error: the state the event
\* names, whatever the current state.
EventTarget(event) ==
    CASE event = "RouteFound"          -> "Routed"
      [] event = "Accepted"            -> "Accepted"
      [] event = "SettlementStarted"   -> "Settling"
      [] event = "SettlementConfirmed" -> "Settled"
      [] event = "SettlementFailed"    -> "Failed"
      [] event = "Expired"             -> "Expired"
      [] event = "Cancelled"           -> "Cancelled"
      [] event = "RetryRoute"          -> "Routed"

Ok(s) == [ok |-> TRUE, state |-> s]

InvalidStateTransition(from, to) ==
    [ok |-> FALSE, err |-> "InvalidStateTransition", from |-> from, to |-> to]

\* A plausible slip: the Cancelled event accepted in every non-final state.
transition_cancel_anywhere(current, event) ==
    CASE current = "Created"  /\ event = "RouteFound"          -> Ok("Routed")
      [] current = "Created"  /\ event = "Expired"             -> Ok("Expired")
      [] current = "Routed"   /\ event = "Accepted"            -> Ok("Accepted")
      [] current = "Routed"   /\ event = "SettlementFailed"    -> Ok("Failed")
      [] current = "Routed"   /\ event = "Expired"             -> Ok("Expired")
      [] current = "Accepted" /\ event = "SettlementStarted"   -> Ok("Settling")
      [] current = "Accepted" /\ event = "SettlementFailed"    -> Ok("Failed")
      [] current = "Accepted" /\ event = "Expired"             -> Ok("Expired")
      [] current = "Settling" /\ event = "SettlementConfirmed" -> Ok("Settled")
      [] current = "Settling" /\ event = "SettlementFailed"    -> Ok("Failed")
      [] current = "Failed"   /\ event = "RetryRoute"          -> Ok("Routed")
      [] ~is_final(current)   /\ event = "Cancelled"           -> Ok("Cancelled")
      [] OTHER -> InvalidStateTransition(current, EventTarget(event))

\* A plausible slip: RetryRoute accepted from every state but Settled, so an
\* Expired or Cancelled payment can be routed again.
transition_retry_terminal(current, event) ==
    CASE current = "Created"  /\ event = "RouteFound"          -> Ok("Routed")
      [] current = "Created"  /\ event = "Expired"             -> Ok("Expired")
      [] current = "Created"  /\ event = "Cancelled"           -> Ok("Cancelled")
      [] current = "Routed"   /\ event = "Accepted"            -> Ok("Accepted")
      [] current = "Routed"   /\ event = "SettlementFailed"    -> Ok("Failed")
      [] current = "Routed"   /\ event = "Expired"             -> Ok("Expired")
      [] current = "Routed"   /\ event = "Cancelled"           -> Ok("Cancelled")
      [] current = "Accepted" /\ event = "SettlementStarted"   -> Ok("Settling")
      [] current = "Accepted" /\ event = "SettlementFailed"    -> Ok("Failed")
      [] current = "Accepted" /\ event = "Expired"             -> Ok("Expired")
      [] current = "Accepted" /\ event = "Cancelled"           -> Ok("Cancelled")
      [] current = "Settling" /\ event = "SettlementConfirmed" -> Ok("Settled")
      [] current = "Settling" /\ event = "SettlementFailed"    -> Ok("Failed")
      [] current \in {"Failed", "Expired", "Cancelled"}
            /\ event = "RetryRoute"                            -> Ok("Routed")
      [] OTHER -> InvalidStateTransition(current, EventTarget(event))

\* A plausible slip: the Expired event accepted in Failed as it is in the
\* other states that are not final, Settling apart.
transition_expire_failed(current, event) ==
    CASE current = "Created"  /\ event = "RouteFound"          -> Ok("Routed")
      [] current = "Created"  /\ event = "Expired"             -> Ok("Expired")
      [] current = "Created"  /\ event = "Cancelled"           -> Ok("Cancelled")
      [] current = "Routed"   /\ event = "Accepted"            -> Ok("Accepted")
      [] current = "Routed"   /\ event = "SettlementFailed"    -> Ok("Failed")
      [] current = "Routed"   /\ event = "Expired"             -> Ok("Expired")
      [] current = "Routed"   /\ event = "Cancelled"           -> Ok("Cancelled")
      [] current = "Accepted" /\ event = "SettlementStarted"   -> Ok("Settling")
      [] current = "Accepted" /\ event = "SettlementFailed"    -> Ok("Failed")
      [] current = "Accepted" /\ event = "Expired"             -> Ok("Expired")
      [] current = "Accepted" /\ event = "Cancelled"           -> Ok("Cancelled")
      [] current = "Settling" /\ event = "SettlementConfirmed" -> Ok("Settled")
      [] current = "Settling" /\ event = "SettlementFailed"    -> Ok("Failed")
      [] current = "Failed"   /\ event = "RetryRoute"          -> Ok("Routed")
      [] current = "Failed"   /\ event = "Expired"             -> Ok("Expired")
      [] OTHER -> InvalidStateTransition(current, EventTarget(event))

\* PaymentStateMachine::transition: the match on (current, event).
transition(current, event) ==
    CASE current = "Created"  /\ event = "RouteFound"          -> Ok("Routed")
      [] current = "Created"  /\ event = "Expired"             -> Ok("Expired")
      [] current = "Created"  /\ event = "Cancelled"           -> Ok("Cancelled")
      [] current = "Routed"   /\ event = "Accepted"            -> Ok("Accepted")
      [] current = "Routed"   /\ event = "SettlementFailed"    -> Ok("Failed")
      [] current = "Routed"   /\ event = "Expired"             -> Ok("Expired")
      [] current = "Routed"   /\ event = "Cancelled"           -> Ok("Cancelled")
      [] current = "Accepted" /\ event = "SettlementStarted"   -> Ok("Settling")
      [] current = "Accepted" /\ event = "SettlementFailed"    -> Ok("Failed")
      [] current = "Accepted" /\ event = "Expired"             -> Ok("Expired")
      [] current = "Accepted" /\ event = "Cancelled"           -> Ok("Cancelled")
      [] current = "Settling" /\ event = "SettlementConfirmed" -> Ok("Settled")
      [] current = "Settling" /\ event = "SettlementFailed"    -> Ok("Failed")
      [] current = "Failed"   /\ event = "RetryRoute"          -> Ok("Routed")
      [] OTHER -> InvalidStateTransition(current, EventTarget(event))

can_transition(current, event) == transition(current, event).ok

NoCall == [called |-> FALSE]

\* The holder of a payment applies an event: state = transition(state, e)?
\* On Err the state is kept.
ApplyEvent(event) ==
    /\ pm_steps < MaxEvents
    /\ LET r == transition(pm_state, event)
       IN  /\ pm_last' = [called |-> TRUE, from |-> pm_state,
                          event |-> event, result |-> r]
           /\ pm_state' = IF r.ok THEN r.state ELSE pm_state
    /\ pm_steps' = pm_steps + 1
    /\ UNCHANGED <<ret, lg_vars, adapters, ht_vars, nw_vars, rt_vars, ext_vars>>

NextPayment == \E event \in PaymentEvent : ApplyEvent(event)

(***************************************************************************)
(* Internal double-entry ledger adapter                                    *)
(***************************************************************************)

RECURSIVE Pow2(_)
Pow2(n) == IF n = 0 THEN 1 ELSE 2 * Pow2(n - 1)

\* i128::MIN and i128::MAX at the model's width.
MinInt == 0 - Pow2(BalanceBits - 1)
MaxInt == Pow2(BalanceBits - 1) - 1

\* `amount.value as i128`: the u128 bit pattern read as two's complement.
AsSigned(value) ==
    IF value >= Pow2(BalanceBits - 1) THEN value - Pow2(BalanceBits) ELSE value

\* The result of i128 arithmetic in a build without overflow checks.
Wrap(x) ==
    ((x + Pow2(BalanceBits - 1)) % Pow2(BalanceBits)) - Pow2(BalanceBits - 1)

Overflows(x) == x < MinInt \/ x > MaxInt

Dids == {"did:gppn:key:alice", "did:gppn:key:bob"}

\* The currency of the settlements: Currency::Fiat(FiatCurrency::USD).
Currencies == { [kind |-> "Fiat", code |-> "USD"] }

\* u128 amounts: a small one, i128::MAX and i128::MAX + 1.
AmountValues == {1, Pow2(BalanceBits - 1) - 1, Pow2(BalanceBits - 1)}

SettlementIds == 1..MaxSettlements

\* The ids a caller may pass; 0 is an id no initiate has returned.
CallIds == 0..MaxSettlements

SettlementStatus == {"Initiated", "Pending", "Confirmed", "Failed", "RolledBack"}

\* Display for Currency: the code alone, whatever the variant.
CurrencyDisplay(currency) == currency.code

\* format!("{}:{}", did.uri(), currency)
balance_key(did, currency) == <<did, CurrencyDisplay(currency)>>

BalanceOf(bal, did, currency) ==
    IF balance_key(did, currency) \in DOMAIN bal
    THEN bal[balance_key(did, currency)]
    ELSE 0

get_balance(did, currency) == BalanceOf(balances, did, currency)

\* DashMap::insert / entry().or_insert(): the map with key set to value.
MapPut(map, key, value) ==
    [k \in DOMAIN map \cup {key} |-> IF k = key THEN value ELSE map[k]]

\* balances.entry(key).and_modify(|b| *b += delta).or_insert(delta), with
\* delta = value or, for `*b -= value` and or_insert(-value), delta = -value.
\* An overflow panics under overflow checks and wraps without them.
BalanceAdjust(bal, key, delta, checks) ==
    LET old == IF key \in DOMAIN bal THEN bal[key] ELSE 0
        sum == IF key \in DOMAIN bal THEN old + delta ELSE delta
    IN  IF checks /\ Overflows(sum)
        THEN [panic |-> TRUE, bal |-> bal]
        ELSE [panic |-> FALSE, bal |-> MapPut(bal, key, Wrap(sum))]

\* Uuid::now_v7() for a ledger entry: an id no entry has yet.
FreshEntryId(led) == Cardinality(led) + 1

LedgerEntry(led, did, delta, settlement_id, currency) ==
    [_id |-> FreshEntryId(led), did |-> did, delta |-> delta,
     settlement_id |-> settlement_id, currency |-> currency]

\* record_entries, as a function of the store it starts from. `-value`
\* is computed first (line 90): it overflows for i128::MIN.
\* Returns the store it leaves and whether it panicked on the way.
record_entries(led, bal, settlement_id, sender, receiver, amount, checks) ==
    LET value == AsSigned(amount.value)
        neg == Wrap(0 - value)
        led1 == led \cup {LedgerEntry(led, sender, neg, settlement_id, amount.currency)}
        led2 == led1 \cup {LedgerEntry(led1, receiver, value, settlement_id, amount.currency)}
        debit == BalanceAdjust(bal, balance_key(sender, amount.currency), neg, checks)
        credit == BalanceAdjust(debit.bal, balance_key(receiver, amount.currency),
                                value, checks)
    IN  IF checks /\ Overflows(0 - value)
        THEN [panic |-> TRUE, ledger |-> led, balances |-> bal]
        ELSE IF debit.panic
        THEN [panic |-> TRUE, ledger |-> led2, balances |-> bal]
        ELSE IF credit.panic
        THEN [panic |-> TRUE, ledger |-> led2, balances |-> debit.bal]
        ELSE [panic |-> FALSE, ledger |-> led2, balances |-> credit.bal]

\* A plausible slip: the reversal adjusts the receiver with the sign of the
\* confirm (`+=`), so the credit is applied twice instead of being undone.
reverse_entries_credit_again(bal, sender, receiver, amount, checks) ==
    LET value == AsSigned(amount.value)
        credit == BalanceAdjust(bal, balance_key(sender, amount.currency), value, checks)
        again == BalanceAdjust(credit.bal, balance_key(receiver, amount.currency),
                               value, checks)
    IN  IF credit.panic
        THEN [panic |-> TRUE, balances |-> bal]
        ELSE IF again.panic
        THEN [panic |-> TRUE, balances |-> credit.bal]
        ELSE [panic |-> FALSE, balances |-> again.bal]

\* reverse_entries: the balances only; the ledger map is not touched.
\* or_insert(-value) has its argument computed after and_modify ran.
reverse_entries(bal, sender, receiver, amount, checks) ==
    LET value == AsSigned(amount.value)
        neg == Wrap(0 - value)
        credit == BalanceAdjust(bal, balance_key(sender, amount.currency), value, checks)
        debit == BalanceAdjust(credit.bal, balance_key(receiver, amount.currency),
                               neg, checks)
    IN  IF credit.panic
        THEN [panic |-> TRUE, balances |-> bal]
        ELSE IF debit.panic \/ (checks /\ Overflows(0 - value))
        THEN [panic |-> TRUE,
              balances |-> IF debit.panic THEN credit.bal ELSE debit.bal]
        ELSE [panic |-> FALSE, balances |-> debit.bal]

NoRet == [op |-> "none", kind |-> "none"]

Ret(op, id, kind, from) == [op |-> op, id |-> id, kind |-> kind, from |-> from]

NoSnap == [taken |-> FALSE]

\* The tasks that call the adapter concurrently.
Tasks == {"task1", "task2"}

Idle == [pc |-> "idle", id |-> 0]

EmptyMap == [k \in {} |-> 0]

\* Whether a call changed a balance a snapshot is about.
Touches(old, new, rec) ==
    \/ BalanceOf(old, rec.sender_did, rec.amount.currency)
         # BalanceOf(new, rec.sender_did, rec.amount.currency)
    \/ BalanceOf(old, rec.receiver_did, rec.amount.currency)
         # BalanceOf(new, rec.receiver_did, rec.amount.currency)

\* The snapshots after a call on settlement `id` that left balances `new`:
\* a confirm that took effect takes the snapshot of its own settlement; a
\* snapshot stays clean until another call changes a balance it is about.
Snapshots(id, new, kind) ==
    [i \in SettlementIds |->
        IF kind = "Ok-confirm" /\ i = id
        THEN [taken |-> TRUE, clean |-> TRUE,
              sender |-> get_balance(settlements[i].sender_did,
                                     settlements[i].amount.currency),
              receiver |-> get_balance(settlements[i].receiver_did,
                                       settlements[i].amount.currency)]
        ELSE IF /\ lg_pre[i].taken
                /\ (i # id \/ kind = "panic")
                /\ Touches(balances, new, settlements[i])
        THEN [lg_pre[i] EXCEPT !.clean = FALSE]
        ELSE lg_pre[i]]

\* initiate: a fresh SettlementId, a record in status Initiated.
Initiate(value, currency, sender_did, receiver_did) ==
    /\ Cardinality(DOMAIN settlements) < MaxSettlements
    /\ LET id == Cardinality(DOMAIN settlements) + 1
       IN  /\ settlements' =
                MapPut(settlements, id,
                       [id |-> id,
                        amount |-> [value |-> value, currency |-> currency],
                        sender_did |-> sender_did,
                        receiver_did |-> receiver_did,
                        status |-> "Initiated"])
           /\ ret' = Ret("initiate", id, "Ok", "none")
    /\ lg_prev' = balances
    /\ UNCHANGED <<overflow_checks, ledger, balances, lg_pre, lg_task>>
    /\ UNCHANGED <<pm_vars, adapters, ht_vars, nw_vars, rt_vars, ext_vars>>

\* confirm, run from call to return with no other call in between.
Confirm(id) ==
    /\ Cardinality(ledger) + 2 <= MaxLedger
    /\ lg_prev' = balances
    /\ IF id \notin DOMAIN settlements
       THEN /\ ret' = Ret("confirm", id, "NotFound", "none")
            /\ UNCHANGED <<settlements, ledger, balances, lg_pre>>
       ELSE LET record == settlements[id]
                done == record_entries(ledger, balances, id, record.sender_did,
                                       record.receiver_did, record.amount,
                                       overflow_checks)
            IN  IF record.status \notin {"Initiated", "Pending"}
                THEN /\ ret' = Ret("confirm", id, "InvalidStateTransition",
                                      record.status)
                     /\ UNCHANGED <<settlements, ledger, balances, lg_pre>>
                ELSE /\ ledger' = done.ledger
                     /\ balances' = done.balances
                     /\ settlements' =
                          IF done.panic THEN settlements
                          ELSE [settlements EXCEPT ![id].status = "Confirmed"]
                     /\ ret' = Ret("confirm", id,
                                      IF done.panic THEN "panic" ELSE "Ok",
                                      record.status)
                     /\ lg_pre' = Snapshots(id, done.balances,
                                             IF done.panic THEN "panic"
                                             ELSE "Ok-confirm")
    /\ UNCHANGED <<overflow_checks, lg_task>>
    /\ UNCHANGED <<pm_vars, adapters, ht_vars, nw_vars, rt_vars, ext_vars>>

\* rollback, run from call to return with no other call in between.
Rollback(id) ==
    /\ lg_prev' = balances
    /\ IF id \notin DOMAIN settlements
       THEN /\ ret' = Ret("rollback", id, "NotFound", "none")
            /\ UNCHANGED <<settlements, balances, lg_pre>>
       ELSE LET record == settlements[id]
                done == reverse_entries(balances, record.sender_did,
                                        record.receiver_did, record.amount,
                                        overflow_checks)
            IN  IF record.status \in {"Initiated", "Pending"}
                THEN /\ settlements' = [settlements EXCEPT ![id].status = "RolledBack"]
                     /\ ret' = Ret("rollback", id, "Ok", record.status)
                     /\ UNCHANGED <<balances, lg_pre>>
                ELSE IF record.status = "Confirmed"
                THEN /\ balances' = done.balances
                     /\ settlements' =
                          IF done.panic THEN settlements
                          ELSE [settlements EXCEPT ![id].status = "RolledBack"]
                     /\ ret' = Ret("rollback", id,
                                      IF done.panic THEN "panic" ELSE "Ok",
                                      record.status)
                     /\ lg_pre' = Snapshots(id, done.balances,
                                             IF done.panic THEN "panic"
                                             ELSE "Ok-rollback")
                ELSE /\ ret' = Ret("rollback", id, "InvalidStateTransition",
                                      record.status)
                     /\ UNCHANGED <<settlements, balances, lg_pre>>
    /\ UNCHANGED <<overflow_checks, ledger, lg_task>>
    /\ UNCHANGED <<pm_vars, adapters, ht_vars, nw_vars, rt_vars, ext_vars>>

NextLedger ==
    \/ \E value \in AmountValues, currency \in Currencies,
          sender_did \in Dids, receiver_did \in Dids :
            Initiate(value, currency, sender_did, receiver_did)
    \/ \E id \in CallIds : Confirm(id)
    \/ \E id \in CallIds : Rollback(id)

(***************************************************************************)
(* The adapter under concurrent calls. A call holds the DashMap entry of   *)
(* its settlement (get_mut) from its first line to its return or panic;    *)
(* every access to the ledger and balances maps is a step of its own.      *)
(***************************************************************************)

\* The entry guard of settlement `id` is held by a task other than `t`.
HeldByOther(t, id) ==
    \E u \in Tasks \ {t} : lg_task[u].pc # "idle" /\ lg_task[u].id = id

At(t, pc) == lg_task[t].pc = pc

Goto(t, pc, id) == lg_task' = [lg_task EXCEPT ![t] = [pc |-> pc, id |-> id]]

\* The task returns (or unwinds): the entry guard is dropped.
Return(t, op, kind, from) ==
    /\ lg_task' = [lg_task EXCEPT ![t] = Idle]
    /\ ret' = Ret(op, lg_task[t].id, kind, from)

ValueOf(t) == AsSigned(settlements[lg_task[t].id].amount.value)

TaskInitiate(t, value, currency, sender_did, receiver_did) ==
    /\ At(t, "idle")
    /\ Cardinality(DOMAIN settlements) < MaxSettlements
    /\ LET id == Cardinality(DOMAIN settlements) + 1
       IN  /\ settlements' =
                MapPut(settlements, id,
                       [id |-> id,
                        amount |-> [value |-> value, currency |-> currency],
                        sender_did |-> sender_did,
                        receiver_did |-> receiver_did,
                        status |-> "Initiated"])
           /\ ret' = Ret("initiate", id, "Ok", "none")
    /\ UNCHANGED <<overflow_checks, ledger, balances, lg_prev, lg_pre, lg_task>>
    /\ UNCHANGED <<pm_vars, adapters, ht_vars, nw_vars, rt_vars, ext_vars>>

\* confirm, lines 179-194: get_mut and the match on the status.
ConfirmBegin(t, id) ==
    /\ At(t, "idle")
    /\ Cardinality(ledger) + 2 <= MaxLedger
    /\ IF id \notin DOMAIN settlements
       THEN /\ ret' = Ret("confirm", id, "NotFound", "none")
            /\ UNCHANGED lg_task
       ELSE /\ ~HeldByOther(t, id)
            /\ IF settlements[id].status \in {"Initiated", "Pending"}
               THEN /\ Goto(t, "cf_debit_entry", id)
                    /\ UNCHANGED ret
               ELSE /\ ret' = Ret("confirm", id, "InvalidStateTransition",
                                     settlements[id].status)
                    /\ UNCHANGED lg_task
    /\ UNCHANGED <<overflow_checks, settlements, ledger, balances, lg_prev, lg_pre>>
    /\ UNCHANGED <<pm_vars, adapters, ht_vars, nw_vars, rt_vars, ext_vars>>

\* record_entries, lines 84-94: the debit entry; `-value` may overflow.
ConfirmDebitEntry(t) ==
    /\ At(t, "cf_debit_entry")
    /\ LET rec == settlements[lg_task[t].id]
       IN  IF overflow_checks /\ Overflows(0 - ValueOf(t))
           THEN /\ Return(t, "confirm", "panic", rec.status)
                /\ UNCHANGED ledger
           ELSE /\ ledger' = ledger \cup
                      {LedgerEntry(ledger, rec.sender_did, Wrap(0 - ValueOf(t)),
                                   rec.id, rec.amount.currency)}
                /\ Goto(t, "cf_credit_entry", rec.id)
                /\ UNCHANGED ret
    /\ UNCHANGED <<overflow_checks, settlements, balances, lg_prev, lg_pre>>
    /\ UNCHANGED <<pm_vars, adapters, ht_vars, nw_vars, rt_vars, ext_vars>>

\* record_entries, lines 97-107: the credit entry.
ConfirmCreditEntry(t) ==
    /\ At(t, "cf_credit_entry")
    /\ LET rec == settlements[lg_task[t].id]
       IN  /\ ledger' = ledger \cup
                 {LedgerEntry(ledger, rec.receiver_did, ValueOf(t),
                              rec.id, rec.amount.currency)}
           /\ Goto(t, "cf_debit_balance", rec.id)
    /\ UNCHANGED <<overflow_checks, settlements, balances, ret, lg_prev, lg_pre>>
    /\ UNCHANGED <<pm_vars, adapters, ht_vars, nw_vars, rt_vars, ext_vars>>

\* One balances.entry(key) update by task t, then on to `next`.
BalanceStep(t, op, did, delta, next) ==
    LET rec == settlements[lg_task[t].id]
        done == BalanceAdjust(balances, balance_key(did, rec.amount.currency),
                              delta, overflow_checks)
    IN  /\ balances' = done.bal
        /\ IF done.panic
           THEN Return(t, op, "panic", rec.status)
           ELSE Goto(t, next, rec.id) /\ UNCHANGED ret
        /\ UNCHANGED <<overflow_checks, settlements, ledger, lg_prev, lg_pre>>
        /\ UNCHANGED <<pm_vars, adapters, ht_vars, nw_vars, rt_vars, ext_vars>>

\* record_entries, lines 113-116: the sender's balance.
ConfirmDebitBalance(t) ==
    /\ At(t, "cf_debit_balance")
    /\ BalanceStep(t, "confirm", settlements[lg_task[t].id].sender_did,
                   Wrap(0 - ValueOf(t)), "cf_credit_balance")

\* record_entries, lines 117-120: the receiver's balance.
ConfirmCreditBalance(t) ==
    /\ At(t, "cf_credit_balance")
    /\ BalanceStep(t, "confirm", settlements[lg_task[t].id].receiver_did,
                   ValueOf(t), "cf_status")

\* confirm, lines 204-218: the status, the receipt, the return.
ConfirmReturn(t) ==
    /\ At(t, "cf_status")
    /\ settlements' = [settlements EXCEPT ![lg_task[t].id].status = "Confirmed"]
    /\ Return(t, "confirm", "Ok", settlements[lg_task[t].id].status)
    /\ UNCHANGED <<overflow_checks, ledger, balances, lg_prev, lg_pre>>
    /\ UNCHANGED <<pm_vars, adapters, ht_vars, nw_vars, rt_vars, ext_vars>>

\* rollback, lines 222-247: get_mut and the match on the status.
RollbackBegin(t, id) ==
    /\ At(t, "idle")
    /\ IF id \notin DOMAIN settlements
       THEN /\ ret' = Ret("rollback", id, "NotFound", "none")
            /\ UNCHANGED lg_task
       ELSE /\ ~HeldByOther(t, id)
            /\ IF settlements[id].status \in {"Initiated", "Pending"}
               THEN Goto(t, "rb_status", id) /\ UNCHANGED ret
               ELSE IF settlements[id].status = "Confirmed"
               THEN Goto(t, "rb_credit_balance", id) /\ UNCHANGED ret
               ELSE /\ ret' = Ret("rollback", id, "InvalidStateTransition",
                                     settlements[id].status)
                    /\ UNCHANGED lg_task
    /\ UNCHANGED <<overflow_checks, settlements, ledger, balances, lg_prev, lg_pre>>
    /\ UNCHANGED <<pm_vars, adapters, ht_vars, nw_vars, rt_vars, ext_vars>>

\* reverse_entries, lines 135-138: the sender's balance.
RollbackCreditBalance(t) ==
    /\ At(t, "rb_credit_balance")
    /\ BalanceStep(t, "rollback", settlements[lg_task[t].id].sender_did,
                   ValueOf(t), "rb_debit_balance")

\* reverse_entries, lines 139-142: the receiver's balance. The argument of
\* or_insert(-value) is computed after and_modify ran.
RollbackDebitBalance(t) ==
    /\ At(t, "rb_debit_balance")
    /\ LET rec == settlements[lg_task[t].id]
           done == BalanceAdjust(balances,
                                 balance_key(rec.receiver_did, rec.amount.currency),
                                 Wrap(0 - ValueOf(t)), overflow_checks)
       IN  /\ balances' = done.bal
           /\ IF done.panic \/ (overflow_checks /\ Overflows(0 - ValueOf(t)))
              THEN Return(t, "rollback", "panic", rec.status)
              ELSE Goto(t, "rb_status", rec.id) /\ UNCHANGED ret
    /\ UNCHANGED <<overflow_checks, settlements, ledger, lg_prev, lg_pre>>
    /\ UNCHANGED <<pm_vars, adapters, ht_vars, nw_vars, rt_vars, ext_vars>>

\* rollback, lines 249-251: the status and the return.
RollbackReturn(t) ==
    /\ At(t, "rb_status")
    /\ settlements' = [settlements EXCEPT ![lg_task[t].id].status = "RolledBack"]
    /\ Return(t, "rollback", "Ok", settlements[lg_task[t].id].status)
    /\ UNCHANGED <<overflow_checks, ledger, balances, lg_prev, lg_pre>>
    /\ UNCHANGED <<pm_vars, adapters, ht_vars, nw_vars, rt_vars, ext_vars>>

NextLedgerTasks ==
    \E t \in Tasks :
        \/ \E value \in AmountValues, currency \in Currencies,
              sender_did \in Dids, receiver_did \in Dids :
                TaskInitiate(t, value, currency, sender_did, receiver_did)
        \/ \E id \in CallIds : ConfirmBegin(t, id)
        \/ ConfirmDebitEntry(t)
        \/ ConfirmCreditEntry(t)
        \/ ConfirmDebitBalance(t)
        \/ ConfirmCreditBalance(t)
        \/ ConfirmReturn(t)
        \/ \E id \in CallIds : RollbackBegin(t, id)
        \/ RollbackCreditBalance(t)
        \/ RollbackDebitBalance(t)
        \/ RollbackReturn(t)

(***************************************************************************)
(* Hash Time-Locked Contracts                                              *)
(***************************************************************************)

HtlcStatus == {"Active", "Claimed", "Refunded", "Expired"}

Preimages == {"secret", "guess"}

\* blake3::hash: a digest is not its preimage, and two preimages of the
\* model have two digests.
blake3_hash(preimage) == <<"blake3", preimage>>

\* Htlc.time_lock, in milliseconds since the epoch.
TimeLocks == {1}

\* Utc::now().timestamp_millis() as u64: the wall clock, which the host may
\* set forward or back between two readings; here before, at and after the
\* time lock.
Times == 0..2

HtlcIds == 1..MaxHtlcs

HtlcCallIds == 0..MaxHtlcs

Htlc(id, hash_lock, time_lock) ==
    [id |-> id, hash_lock |-> hash_lock, time_lock |-> time_lock,
     status |-> "Active"]

HtlcRet(op, id, kind, from, preimage, now_ms) ==
    [op |-> op, id |-> id, kind |-> kind, from |-> from,
     preimage |-> preimage, now_ms |-> now_ms]

\* A plausible slip: claim admits the statuses refund admits.
claimable_like_refund(htlc) == htlc.status \in {"Active", "Expired"}

\* claim, lines 108-113: the status a claim requires.
claimable(htlc) == htlc.status = "Active"

\* A plausible slip: the expiry test is strict, so a claim made at the very
\* millisecond of the time lock goes through.
claim_active_late(htlc, preimage, now_ms) ==
    IF now_ms > htlc.time_lock
    THEN [htlc |-> [htlc EXCEPT !.status = "Expired"], kind |-> "Expired"]
    ELSE IF blake3_hash(preimage) # htlc.hash_lock
    THEN [htlc |-> htlc, kind |-> "PreimageMismatch"]
    ELSE [htlc |-> [htlc EXCEPT !.status = "Claimed"], kind |-> "Ok"]

\* A plausible slip: the status is set before the preimage is verified.
claim_active_eager(htlc, preimage, now_ms) ==
    IF now_ms >= htlc.time_lock
    THEN [htlc |-> [htlc EXCEPT !.status = "Expired"], kind |-> "Expired"]
    ELSE IF blake3_hash(preimage) # htlc.hash_lock
    THEN [htlc |-> [htlc EXCEPT !.status = "Claimed"], kind |-> "PreimageMismatch"]
    ELSE [htlc |-> [htlc EXCEPT !.status = "Claimed"], kind |-> "Ok"]

\* claim, lines 115-130: the expiry test, then the preimage test.
claim_active(htlc, preimage, now_ms) ==
    IF now_ms >= htlc.time_lock
    THEN [htlc |-> [htlc EXCEPT !.status = "Expired"], kind |-> "Expired"]
    ELSE IF blake3_hash(preimage) # htlc.hash_lock
    THEN [htlc |-> htlc, kind |-> "PreimageMismatch"]
    ELSE [htlc |-> [htlc EXCEPT !.status = "Claimed"], kind |-> "Ok"]

\* claim on a stored HTLC: the record it leaves and what it returns.
claim(htlc, preimage, now_ms) ==
    IF claimable(htlc)
    THEN claim_active(htlc, preimage, now_ms)
    ELSE [htlc |-> htlc, kind |-> "InvalidStateTransition"]

\* A plausible slip: refund does not look at the status.
refundable_always(htlc) == TRUE

\* refund, lines 144-152: the statuses a refund accepts.
refundable(htlc) == htlc.status \in {"Active", "Expired"}

\* A plausible slip: the expiry test is strict, so a refund asked for at the
\* very millisecond of the time lock is turned away.
refund_open_strict(htlc, now_ms) ==
    IF now_ms <= htlc.time_lock
    THEN [htlc |-> htlc, kind |-> "HtlcNotExpired"]
    ELSE [htlc |-> [htlc EXCEPT !.status = "Refunded"], kind |-> "Ok"]

\* refund, lines 154-161: the expiry test.
refund_open(htlc, now_ms) ==
    IF now_ms < htlc.time_lock
    THEN [htlc |-> htlc, kind |-> "HtlcNotExpired"]
    ELSE [htlc |-> [htlc EXCEPT !.status = "Refunded"], kind |-> "Ok"]

\* refund on a stored HTLC: the record it leaves and what it returns.
refund(htlc, now_ms) ==
    IF refundable(htlc)
    THEN refund_open(htlc, now_ms)
    ELSE [htlc |-> htlc, kind |-> "InvalidStateTransition"]

\* check_expiry, lines 172-177: what the sweep does to one HTLC.
expire(htlc, now_ms) ==
    IF htlc.status = "Active" /\ now_ms >= htlc.time_lock
    THEN [htlc |-> [htlc EXCEPT !.status = "Expired"], kind |-> "marked"]
    ELSE [htlc |-> htlc, kind |-> "skipped"]

\* check_expiry over a set of ids, one after the other.
RECURSIVE Sweep(_, _, _)
Sweep(map, ids, now_ms) ==
    IF ids = {} THEN [htlcs |-> map, expired_count |-> 0]
    ELSE LET id == CHOOSE i \in ids : TRUE
             one == expire(map[id], now_ms)
             rest == Sweep([map EXCEPT ![id] = one.htlc], ids \ {id}, now_ms)
         IN  [htlcs |-> rest.htlcs,
              expired_count |-> rest.expired_count
                                  + (IF one.kind = "marked" THEN 1 ELSE 0)]

HtlcIdle == [pc |-> "idle", id |-> 0, preimage |-> "none", now_ms |-> 0,
             todo |-> {}, expired_count |-> 0]

\* create_htlc: a fresh id, the digest of the preimage, status Active.
CreateHtlc(preimage, time_lock) ==
    /\ Cardinality(DOMAIN htlcs) < MaxHtlcs
    /\ LET id == Cardinality(DOMAIN htlcs) + 1
       IN  /\ htlcs' = MapPut(htlcs, id,
                              Htlc(id, blake3_hash(preimage), time_lock))
           /\ ret' = HtlcRet("create_htlc", id, "Ok", "none", preimage, 0)
    /\ UNCHANGED <<ht_log, ht_task>>
    /\ UNCHANGED <<pm_vars, lg_vars, adapters, nw_vars, rt_vars, ext_vars>>

\* claim, run from call to return with no other call in between.
Claim(id, preimage, now_ms) ==
    /\ IF id \notin DOMAIN htlcs
       THEN /\ ret' = HtlcRet("claim", id, "NotFound", "none", preimage, now_ms)
            /\ UNCHANGED htlcs
       ELSE LET done == claim(htlcs[id], preimage, now_ms)
            IN  /\ htlcs' = [htlcs EXCEPT ![id] = done.htlc]
                /\ ret' = HtlcRet("claim", id, done.kind, htlcs[id].status,
                                  preimage, now_ms)
    /\ UNCHANGED <<ht_log, ht_task>>
    /\ UNCHANGED <<pm_vars, lg_vars, adapters, nw_vars, rt_vars, ext_vars>>

\* refund, run from call to return with no other call in between.
Refund(id, now_ms) ==
    /\ IF id \notin DOMAIN htlcs
       THEN /\ ret' = HtlcRet("refund", id, "NotFound", "none", "none", now_ms)
            /\ UNCHANGED htlcs
       ELSE LET done == refund(htlcs[id], now_ms)
            IN  /\ htlcs' = [htlcs EXCEPT ![id] = done.htlc]
                /\ ret' = HtlcRet("refund", id, done.kind, htlcs[id].status,
                                  "none", now_ms)
    /\ UNCHANGED <<ht_log, ht_task>>
    /\ UNCHANGED <<pm_vars, lg_vars, adapters, nw_vars, rt_vars, ext_vars>>

\* check_expiry, run from call to return with no other call in between;
\* it returns the number of HTLCs it marked.
CheckExpiry(now_ms) ==
    /\ LET done == Sweep(htlcs, DOMAIN htlcs, now_ms)
       IN  /\ htlcs' = done.htlcs
           /\ ret' = [op |-> "check_expiry", kind |-> "Ok", now_ms |-> now_ms,
                       expired_count |-> done.expired_count]
    /\ UNCHANGED <<ht_log, ht_task>>
    /\ UNCHANGED <<pm_vars, lg_vars, adapters, nw_vars, rt_vars, ext_vars>>

NextHtlc ==
    \/ \E preimage \in Preimages, time_lock \in TimeLocks :
          CreateHtlc(preimage, time_lock)
    \/ \E id \in HtlcCallIds, preimage \in Preimages, now_ms \in Times :
          Claim(id, preimage, now_ms)
    \/ \E id \in HtlcCallIds, now_ms \in Times : Refund(id, now_ms)
    \/ \E now_ms \in Times : CheckExpiry(now_ms)

(***************************************************************************)
(* The HTLC manager under concurrent calls. claim and refund hold the      *)
(* DashMap entry of their HTLC (get_mut) from the lookup to the return;    *)
(* check_expiry reads the clock once and then visits the entries one by    *)
(* one (iter_mut).                                                         *)
(***************************************************************************)

\* A plausible slip: the calls work on a copy (get, then insert), so that
\* nothing keeps two of them apart.
never_held(t, id) == FALSE

\* The entry guard of HTLC `id` is held by a task other than `t`.
HtlcHeldByOther(t, id) ==
    \E u \in Tasks \ {t} :
        ht_task[u].pc \in {"claim", "refund"} /\ ht_task[u].id = id

\* The calls a task has yet to complete on the HTLCs.
Pending(t) ==
    IF ht_task[t].pc \in {"claim", "refund"} THEN 1
    ELSE Cardinality(ht_task[t].todo)

RECURSIVE SumOver(_, _)
SumOver(f, keys) ==
    IF keys = {} THEN 0
    ELSE LET k == CHOOSE x \in keys : TRUE
         IN  f[k] + SumOver(f, keys \ {k})

\* Calls completed or under way, over all HTLCs.
HtlcCalls ==
    SumOver([id \in HtlcIds |-> Len(ht_log[id])], HtlcIds)
      + SumOver([t \in Tasks |-> Pending(t)], Tasks)

Call(op, preimage, now_ms, kind) ==
    [op |-> op, preimage |-> preimage, now_ms |-> now_ms, kind |-> kind]

Logged(id, call) == ht_log' = [ht_log EXCEPT ![id] = Append(@, call)]

HtlcReturn(t) == ht_task' = [ht_task EXCEPT ![t] = HtlcIdle]

\* create_htlc; a sweep under way may or may not come by the new entry.
TaskCreateHtlc(t, preimage, time_lock) ==
    /\ ht_task[t].pc = "idle"
    /\ Cardinality(DOMAIN htlcs) < MaxHtlcs
    /\ LET id == Cardinality(DOMAIN htlcs) + 1
       IN  /\ htlcs' = MapPut(htlcs, id,
                              Htlc(id, blake3_hash(preimage), time_lock))
           /\ ret' = HtlcRet("create_htlc", id, "Ok", "none", preimage, 0)
           /\ \E seen_by \in SUBSET { u \in Tasks : ht_task[u].pc = "check_expiry" } :
                 ht_task' = [u \in Tasks |->
                               IF u \in seen_by
                               THEN [ht_task[u] EXCEPT !.todo = @ \cup {id}]
                               ELSE ht_task[u]]
    /\ UNCHANGED ht_log
    /\ UNCHANGED <<pm_vars, lg_vars, adapters, nw_vars, rt_vars, ext_vars>>

\* claim, lines 101-113: get_mut and the status test.
TaskClaimBegin(t, id, preimage) ==
    /\ ht_task[t].pc = "idle"
    /\ HtlcCalls < MaxHtlcCalls
    /\ IF id \notin DOMAIN htlcs
       THEN /\ ret' = HtlcRet("claim", id, "NotFound", "none", preimage, 0)
            /\ UNCHANGED <<ht_task, ht_log>>
       ELSE /\ ~HtlcHeldByOther(t, id)
            /\ IF claimable(htlcs[id])
               THEN /\ ht_task' = [ht_task EXCEPT ![t] =
                          [HtlcIdle EXCEPT !.pc = "claim", !.id = id,
                                           !.preimage = preimage]]
                    /\ UNCHANGED <<ret, ht_log>>
               ELSE /\ ret' = HtlcRet("claim", id, "InvalidStateTransition",
                                      htlcs[id].status, preimage, 0)
                    /\ Logged(id, Call("claim", preimage, 0, "InvalidStateTransition"))
                    /\ UNCHANGED ht_task
    /\ UNCHANGED htlcs
    /\ UNCHANGED <<pm_vars, lg_vars, adapters, nw_vars, rt_vars, ext_vars>>

\* claim, lines 115-130: the clock, the tests, the new status, the return.
TaskClaimFinish(t, now_ms) ==
    /\ ht_task[t].pc = "claim"
    /\ LET id == ht_task[t].id
           preimage == ht_task[t].preimage
           done == claim_active(htlcs[id], preimage, now_ms)
       IN  /\ htlcs' = [htlcs EXCEPT ![id] = done.htlc]
           /\ ret' = HtlcRet("claim", id, done.kind, htlcs[id].status,
                             preimage, now_ms)
           /\ Logged(id, Call("claim", preimage, now_ms, done.kind))
    /\ HtlcReturn(t)
    /\ UNCHANGED <<pm_vars, lg_vars, adapters, nw_vars, rt_vars, ext_vars>>

\* refund, lines 137-152: get_mut and the status test.
TaskRefundBegin(t, id) ==
    /\ ht_task[t].pc = "idle"
    /\ HtlcCalls < MaxHtlcCalls
    /\ IF id \notin DOMAIN htlcs
       THEN /\ ret' = HtlcRet("refund", id, "NotFound", "none", "none", 0)
            /\ UNCHANGED <<ht_task, ht_log>>
       ELSE /\ ~HtlcHeldByOther(t, id)
            /\ IF refundable(htlcs[id])
               THEN /\ ht_task' = [ht_task EXCEPT ![t] =
                          [HtlcIdle EXCEPT !.pc = "refund", !.id = id]]
                    /\ UNCHANGED <<ret, ht_log>>
               ELSE /\ ret' = HtlcRet("refund", id, "InvalidStateTransition",
                                      htlcs[id].status, "none", 0)
                    /\ Logged(id, Call("refund", "none", 0, "InvalidStateTransition"))
                    /\ UNCHANGED ht_task
    /\ UNCHANGED htlcs
    /\ UNCHANGED <<pm_vars, lg_vars, adapters, nw_vars, rt_vars, ext_vars>>

\* refund, lines 154-161: the clock, the test, the new status, the return.
TaskRefundFinish(t, now_ms) ==
    /\ ht_task[t].pc = "refund"
    /\ LET id == ht_task[t].id
           done == refund_open(htlcs[id], now_ms)
       IN  /\ htlcs' = [htlcs EXCEPT ![id] = done.htlc]
           /\ ret' = HtlcRet("refund", id, done.kind, htlcs[id].status,
                             "none", now_ms)
           /\ Logged(id, Call("refund", "none", now_ms, done.kind))
    /\ HtlcReturn(t)
    /\ UNCHANGED <<pm_vars, lg_vars, adapters, nw_vars, rt_vars, ext_vars>>

\* check_expiry, lines 168-171: the clock is read once, before the loop.
TaskSweepBegin(t, now_ms) ==
    /\ ht_task[t].pc = "idle"
    /\ HtlcCalls + Cardinality(DOMAIN htlcs) <= MaxHtlcCalls
    /\ ht_task' = [ht_task EXCEPT ![t] =
           [HtlcIdle EXCEPT !.pc = "check_expiry", !.now_ms = now_ms,
                            !.todo = DOMAIN htlcs]]
    /\ UNCHANGED <<ret, htlcs, ht_log>>
    /\ UNCHANGED <<pm_vars, lg_vars, adapters, nw_vars, rt_vars, ext_vars>>

\* check_expiry, lines 171-178: one turn of the loop, on an entry nobody holds.
TaskSweepVisit(t, id) ==
    /\ ht_task[t].pc = "check_expiry"
    /\ id \in ht_task[t].todo
    /\ ~HtlcHeldByOther(t, id)
    /\ LET now_ms == ht_task[t].now_ms
           done == expire(htlcs[id], now_ms)
       IN  /\ htlcs' = [htlcs EXCEPT ![id] = done.htlc]
           /\ Logged(id, Call("check_expiry", "none", now_ms, done.kind))
           /\ ht_task' = [ht_task EXCEPT
                 ![t].todo = @ \ {id},
                 ![t].expired_count = @ + (IF done.kind = "marked" THEN 1 ELSE 0)]
    /\ UNCHANGED ret
    /\ UNCHANGED <<pm_vars, lg_vars, adapters, nw_vars, rt_vars, ext_vars>>

\* check_expiry, line 180: the count is returned.
TaskSweepReturn(t) ==
    /\ ht_task[t].pc = "check_expiry"
    /\ ht_task[t].todo = {}
    /\ ret' = [op |-> "check_expiry", kind |-> "Ok",
               now_ms |-> ht_task[t].now_ms,
               expired_count |-> ht_task[t].expired_count]
    /\ HtlcReturn(t)
    /\ UNCHANGED <<htlcs, ht_log>>
    /\ UNCHANGED <<pm_vars, lg_vars, adapters, nw_vars, rt_vars, ext_vars>>

NextHtlcTasks ==
    \E t \in Tasks :
        \/ \E preimage \in Preimages, time_lock \in TimeLocks :
              TaskCreateHtlc(t, preimage, time_lock)
        \/ \E id \in HtlcCallIds, preimage \in Preimages :
              TaskClaimBegin(t, id, preimage)
        \/ \E now_ms \in Times : TaskClaimFinish(t, now_ms)
        \/ \E id \in HtlcCallIds : TaskRefundBegin(t, id)
        \/ \E now_ms \in Times : TaskRefundFinish(t, now_ms)
        \/ \E now_ms \in Times : TaskSweepBegin(t, now_ms)
        \/ \E id \in HtlcIds : TaskSweepVisit(t, id)
        \/ TaskSweepReturn(t)

(***************************************************************************)
(* The settlement manager in front of the internal adapter, next to the    *)
(* HTLC manager.                                                           *)
(***************************************************************************)

\* InternalAdapter::adapter_id, and an id no adapter has.
AdapterIds == {"sa-internal", "sa-unknown"}

\* register_adapter: the internal adapter, under its adapter_id.
RegisterAdapter ==
    /\ "sa-internal" \notin adapters
    /\ adapters' = adapters \cup {"sa-internal"}
    /\ ret' = Ret("register_adapter", 0, "Ok", "none")
    /\ UNCHANGED <<pm_vars, lg_vars, ht_vars, nw_vars, rt_vars, ext_vars>>

\* get_adapter failed: the call returns before it reaches an adapter.
AdapterNotFound(op, id) ==
    /\ ret' = Ret(op, id, "AdapterNotFound", "none")
    /\ UNCHANGED <<pm_vars, lg_vars, adapters, ht_vars, nw_vars, rt_vars, ext_vars>>

ManagerInitiate(adapter_id, value, currency, sender_did, receiver_did) ==
    IF adapter_id \in adapters
    THEN Initiate(value, currency, sender_did, receiver_did)
    ELSE AdapterNotFound("initiate", 0)

ManagerConfirm(adapter_id, id) ==
    IF adapter_id \in adapters THEN Confirm(id) ELSE AdapterNotFound("confirm", id)

ManagerRollback(adapter_id, id) ==
    IF adapter_id \in adapters THEN Rollback(id) ELSE AdapterNotFound("rollback", id)

\* The settlements asked of the manager: one unit, from alice to bob.
NextManager ==
    \/ RegisterAdapter
    \/ /\ Cardinality(DOMAIN settlements) < MaxManaged
       /\ \E adapter_id \in AdapterIds, currency \in Currencies :
             ManagerInitiate(adapter_id, 1, currency,
                             "did:gppn:key:alice", "did:gppn:key:bob")
    \/ \E adapter_id \in AdapterIds, id \in CallIds : ManagerConfirm(adapter_id, id)
    \/ \E adapter_id \in AdapterIds, id \in CallIds : ManagerRollback(adapter_id, id)

NextSettlement == NextManager \/ NextHtlc

(***************************************************************************)
(* The network event loop and its command channel                          *)
(* (gppn-network/node.rs, gppn-node/node.rs). A GppnNode is built and      *)
(* started by its owner, who then hands out command senders and moves the  *)
(* node into a task that runs `run`. start, stop and run all take          *)
(* `&mut self`: while run executes nothing else can call the node, so the  *)
(* owner's calls all come before the spawn. Submitters send a              *)
(* NetworkCommand that carries the sending half of a one-shot reply        *)
(* channel, and wait on the receiving half.                                *)
(***************************************************************************)

\* The tasks that hold a clone of the command sender.
Submitters == {"api1", "api2"}

\* What broadcast_pm and send_request return inside the loop, where the
\* swarm is there: Ok, or the publish error of gossipsub.
CommandResults == {"Ok", "Gossipsub"}

NoSubmitter ==
    [pc |-> "idle", holds |-> FALSE, sent |-> 0, served |-> 0,
     outcome |-> "none"]

\* Whether a run holds the receiving half of the shutdown channel it made.
ShutdownReceiverAlive == nw_run = "looping"

\* Whether a sender of the command channel is alive: the node keeps one
\* (command_tx) for as long as it lives, besides those it handed out.
SendersAlive ==
    \/ nw_run \in {"owned", "spawned", "looping"}
    \/ \E s \in Submitters : nw_sub[s].holds

\* Whether the receiver of the command channel is alive.
ReceiverAlive == nw_command_rx # "dropped"

\* A plausible slip: the commands still queued when the receiver goes are
\* forgotten, not dropped, so that their reply channels stay open.
LeakQueued(reply, queue) == reply

\* Dropping the receiver drops the commands still queued, and with each its
\* reply sender: the one-shot channel closes without a value.
DropQueued(reply, queue) ==
    [s \in Submitters |->
        IF \E i \in 1..Len(queue) : queue[i] = s THEN "closed" ELSE reply[s]]

\* The node is dropped: the swarm, both halves it holds of the shutdown
\* channel, its command sender, and the command receiver with its queue.
DropNode(run) ==
    /\ nw_run' = run
    /\ nw_swarm' = FALSE
    /\ nw_connected' = FALSE
    /\ nw_shutdown_tx' = FALSE
    /\ nw_shutdown_sig' = FALSE
    /\ nw_command_rx' = "dropped"
    /\ nw_queue' = <<>>
    /\ nw_reply' = DropQueued(nw_reply, nw_queue)

\* GppnNode::start: AlreadyRunning with a swarm; otherwise the swarm is
\* built and listens, or one of these fails and the node stays as it was.
NodeStart ==
    /\ nw_run = "owned"
    /\ IF nw_swarm
       THEN /\ ret' = [op |-> "start", kind |-> "AlreadyRunning"]
            /\ UNCHANGED nw_swarm
       ELSE \E built \in BOOLEAN :
               /\ nw_swarm' = built
               /\ ret' = [op |-> "start",
                          kind |-> IF built THEN "Ok" ELSE "Listen"]
    /\ UNCHANGED <<nw_run, nw_connected, nw_shutdown_tx, nw_shutdown_sig,
                   nw_command_rx, nw_queue, nw_reply, nw_sub>>
    /\ UNCHANGED <<pm_vars, lg_vars, adapters, ht_vars, rt_vars, ext_vars>>

\* GppnNode::stop: takes the shutdown sender and sends on it, which reaches
\* a loop only if one holds the receiver; drops the swarm and the peers.
NodeStop ==
    /\ nw_run = "owned"
    /\ nw_shutdown_tx' = FALSE
    /\ nw_shutdown_sig' = (nw_shutdown_tx /\ ShutdownReceiverAlive)
    /\ nw_swarm' = FALSE
    /\ nw_connected' = FALSE
    /\ ret' = [op |-> "stop", kind |-> "Ok"]
    /\ UNCHANGED <<nw_run, nw_command_rx, nw_queue, nw_reply, nw_sub>>
    /\ UNCHANGED <<pm_vars, lg_vars, adapters, ht_vars, rt_vars, ext_vars>>

\* GppnFullNode::start, lines 104-115: the owner takes the command senders
\* and moves the node into the task that will run it.
Spawn ==
    /\ nw_run = "owned"
    /\ nw_run' = "spawned"
    /\ nw_sub' = [s \in Submitters |-> [nw_sub[s] EXCEPT !.holds = TRUE]]
    /\ ret' = [op |-> "spawn", kind |-> "Ok"]
    /\ UNCHANGED <<nw_swarm, nw_connected, nw_shutdown_tx, nw_shutdown_sig,
                   nw_command_rx, nw_queue, nw_reply>>
    /\ UNCHANGED <<pm_vars, lg_vars, adapters, ht_vars, rt_vars, ext_vars>>

\* GppnNode::run up to the loop: NotStarted without a swarm or without the
\* command receiver, and then the task ends and drops the node; otherwise a
\* fresh shutdown channel, the command receiver taken, and the loop.
Run ==
    /\ nw_run = "spawned"
    /\ IF ~nw_swarm \/ nw_command_rx # "node"
       THEN /\ DropNode("returned")
            /\ ret' = [op |-> "run", kind |-> "NotStarted"]
            /\ UNCHANGED nw_sub
       ELSE /\ nw_run' = "looping"
            /\ nw_shutdown_tx' = TRUE
            /\ nw_shutdown_sig' = FALSE
            /\ nw_command_rx' = "loop"
            /\ ret' = [op |-> "run", kind |-> "looping"]
            /\ UNCHANGED <<nw_swarm, nw_connected, nw_queue, nw_reply, nw_sub>>
    /\ UNCHANGED <<pm_vars, lg_vars, adapters, ht_vars, rt_vars, ext_vars>>

\* The branches of the loop's select that are ready: the swarm has an event
\* whenever the network produces one; command_rx.recv() is ready with a
\* queued command, or with None once every sender is gone;
\* shutdown_rx.recv() is ready with the signal, or with None once the
\* shutdown sender is gone.
ReadyBranches ==
    {"swarm"}
      \cup (IF nw_queue # <<>> \/ ~SendersAlive THEN {"command"} ELSE {})
      \cup (IF nw_shutdown_sig \/ ~nw_shutdown_tx THEN {"shutdown"} ELSE {})

\* handle_command: the command is carried out on the swarm and its result
\* sent on the command's reply channel.
handle_command(reply, s, result) ==
    [reply EXCEPT ![s] = IF @ = "open" THEN result ELSE @]

\* One turn of the loop: select takes one ready branch, and the loop
\* handles it. A swarm event connects or disconnects a peer; a command is
\* handled; the shutdown signal and the closed command channel break the
\* loop, run returns Ok, the task ends and drops the node.
LoopTake(branch) ==
    /\ nw_run = "looping"
    /\ branch \in ReadyBranches
    /\ \E result \in CommandResults :
          IF branch = "swarm"
          THEN /\ nw_connected' = ~nw_connected
               /\ ret' = [op |-> "swarm_event", kind |-> "Ok",
                          connected |-> ~nw_connected]
               /\ UNCHANGED <<nw_run, nw_swarm, nw_shutdown_tx,
                              nw_shutdown_sig, nw_command_rx, nw_queue,
                              nw_reply, nw_sub>>
          ELSE IF branch = "command" /\ nw_queue # <<>>
          THEN LET s == Head(nw_queue)
               IN  /\ nw_queue' = Tail(nw_queue)
                   /\ nw_reply' = handle_command(nw_reply, s, result)
                   /\ nw_sub' = [nw_sub EXCEPT ![s].served = @ + 1]
                   /\ ret' = [op |-> "handle_command", kind |-> result,
                              from |-> s]
                   /\ UNCHANGED <<nw_run, nw_swarm, nw_connected,
                                  nw_shutdown_tx, nw_shutdown_sig,
                                  nw_command_rx>>
          ELSE /\ DropNode("returned")
               /\ ret' = [op |-> "run", kind |-> "Ok", from |-> branch]
               /\ UNCHANGED nw_sub
    /\ UNCHANGED <<pm_vars, lg_vars, adapters, ht_vars, rt_vars, ext_vars>>

\* The runtime drops the task (a panic in a handler, the runtime shutting
\* down), and with it the node.
TaskAbort ==
    /\ nw_run \in {"spawned", "looping"}
    /\ DropNode("aborted")
    /\ ret' = [op |-> "abort", kind |-> "Ok"]
    /\ UNCHANGED nw_sub
    /\ UNCHANGED <<pm_vars, lg_vars, adapters, ht_vars, rt_vars, ext_vars>>

\* handle_api_command, lines 329-346: a reply channel is made and a command
\* built around its sending half.
Submit(s) ==
    /\ nw_sub[s].pc = "idle"
    /\ nw_sub[s].holds
    /\ nw_sub[s].sent < MaxCommands
    /\ nw_sub' = [nw_sub EXCEPT ![s] = [pc |-> "sending", holds |-> TRUE,
                                        sent |-> @.sent + 1, served |-> 0,
                                        outcome |-> "none"]]
    /\ nw_reply' = [nw_reply EXCEPT ![s] = "open"]
    /\ ret' = [op |-> "submit", kind |-> "Ok", from |-> s]
    /\ UNCHANGED <<nw_run, nw_swarm, nw_connected, nw_shutdown_tx,
                   nw_shutdown_sig, nw_command_rx, nw_queue>>
    /\ UNCHANGED <<pm_vars, lg_vars, adapters, ht_vars, rt_vars, ext_vars>>

\* net_tx.send(command).await: waits for room in the channel; with the
\* receiver gone it fails at once, the error is ignored and the command,
\* with its reply sender, is dropped.
Send(s) ==
    /\ nw_sub[s].pc = "sending"
    /\ IF ~ReceiverAlive
       THEN /\ nw_reply' = [nw_reply EXCEPT ![s] = "closed"]
            /\ UNCHANGED nw_queue
       ELSE /\ Len(nw_queue) < CommandCapacity
            /\ nw_queue' = Append(nw_queue, s)
            /\ UNCHANGED nw_reply
    /\ nw_sub' = [nw_sub EXCEPT ![s].pc = "waiting"]
    /\ ret' = [op |-> "send", kind |-> IF ReceiverAlive THEN "Ok" ELSE "SendError",
               from |-> s]
    /\ UNCHANGED <<nw_run, nw_swarm, nw_connected, nw_shutdown_tx,
                   nw_shutdown_sig, nw_command_rx>>
    /\ UNCHANGED <<pm_vars, lg_vars, adapters, ht_vars, rt_vars, ext_vars>>

\* cmd_reply_rx.await, lines 348-362: the loop's reply, or RecvError once
\* the reply sender was dropped without a value.
Await(s) ==
    /\ nw_sub[s].pc = "waiting"
    /\ nw_reply[s] \in CommandResults \cup {"closed"}
    /\ nw_sub' = [nw_sub EXCEPT ![s].pc = "idle",
                                ![s].outcome = IF nw_reply[s] = "closed"
                                               THEN "RecvError"
                                               ELSE nw_reply[s]]
    /\ nw_reply' = [nw_reply EXCEPT ![s] = "none"]
    /\ ret' = [op |-> "await", kind |-> "Ok", from |-> s]
    /\ UNCHANGED <<nw_run, nw_swarm, nw_connected, nw_shutdown_tx,
                   nw_shutdown_sig, nw_command_rx, nw_queue>>
    /\ UNCHANGED <<pm_vars, lg_vars, adapters, ht_vars, rt_vars, ext_vars>>

\* GppnFullNode::shutdown, lines 198-203: a holder drops its command sender.
DropSender(s) ==
    /\ nw_sub[s].pc = "idle"
    /\ nw_sub[s].holds
    /\ nw_sub' = [nw_sub EXCEPT ![s].holds = FALSE]
    /\ ret' = [op |-> "shutdown", kind |-> "Ok", from |-> s]
    /\ UNCHANGED <<nw_run, nw_swarm, nw_connected, nw_shutdown_tx,
                   nw_shutdown_sig, nw_command_rx, nw_queue, nw_reply>>
    /\ UNCHANGED <<pm_vars, lg_vars, adapters, ht_vars, rt_vars, ext_vars>>

LoopStep == \E branch \in {"swarm", "command", "shutdown"} : LoopTake(branch)

NextNetwork ==
    \/ NodeStart
    \/ NodeStop
    \/ Spawn
    \/ Run
    \/ LoopStep
    \/ TaskAbort
    \/ \E s \in Submitters : Submit(s)
    \/ \E s \in Submitters : Send(s)
    \/ \E s \in Submitters : Await(s)
    \/ \E s \in Submitters : DropSender(s)

(***************************************************************************)
(* The network node kept by its owner (gppn-network/node.rs). The owner    *)
(* does not move the node into a task: it awaits `run` itself, under a     *)
(* select or a timeout, and gets the node back when the future of run      *)
(* completes or is dropped. run borrows the node mutably, so start and     *)
(* stop are called only between runs; the command receiver that run took   *)
(* out of the node lives in the future of run and goes with it.            *)
(***************************************************************************)

\* GppnNode::command_sender: the owner hands a clone of the command sender
\* to another task.
CommandSender(s) ==
    /\ nw_run = "owned"
    /\ ~nw_sub[s].holds
    /\ nw_sub' = [nw_sub EXCEPT ![s].holds = TRUE]
    /\ ret' = [op |-> "command_sender", kind |-> "Ok", from |-> s]
    /\ UNCHANGED <<nw_run, nw_swarm, nw_connected, nw_shutdown_tx,
                   nw_shutdown_sig, nw_command_rx, nw_queue, nw_reply>>
    /\ UNCHANGED <<pm_vars, lg_vars, adapters, ht_vars, rt_vars, ext_vars>>

\* GppnNode::run, lines 217-228, awaited by the owner: NotStarted without a
\* swarm; then a fresh shutdown channel is made and its sender stored; then
\* the command receiver is taken, or NotStarted if it is no longer there
\* (and the shutdown receiver just made is dropped); then the loop.
RunAwaited ==
    /\ nw_run = "owned"
    /\ IF ~nw_swarm
       THEN /\ ret' = [op |-> "run", kind |-> "NotStarted", started |-> nw_swarm]
            /\ UNCHANGED <<nw_run, nw_shutdown_tx, nw_command_rx>>
       ELSE IF nw_command_rx # "node"
       THEN /\ ret' = [op |-> "run", kind |-> "NotStarted", started |-> nw_swarm]
            /\ nw_shutdown_tx' = TRUE
            /\ UNCHANGED <<nw_run, nw_command_rx>>
       ELSE /\ ret' = [op |-> "run", kind |-> "looping", started |-> nw_swarm]
            /\ nw_run' = "awaited"
            /\ nw_shutdown_tx' = TRUE
            /\ nw_command_rx' = "loop"
    /\ nw_shutdown_sig' = FALSE
    /\ UNCHANGED <<nw_swarm, nw_connected, nw_queue, nw_reply, nw_sub>>
    /\ UNCHANGED <<pm_vars, lg_vars, adapters, ht_vars, rt_vars, ext_vars>>

\* One turn of the loop of an awaited run, lines 237-264. The node holds
\* the shutdown sender and a command sender, and nobody can call stop while
\* run borrows the node: neither the signal nor the end of a channel comes,
\* and select takes a swarm event or a queued command.
AwaitedTake(branch) ==
    /\ nw_run = "awaited"
    /\ \E result \in CommandResults :
          IF branch = "swarm"
          THEN /\ nw_connected' = ~nw_connected
               /\ ret' = [op |-> "swarm_event", kind |-> "Ok",
                          connected |-> ~nw_connected]
               /\ UNCHANGED <<nw_queue, nw_reply, nw_sub>>
          ELSE /\ nw_queue # <<>>
               /\ LET s == Head(nw_queue)
                  IN  /\ nw_queue' = Tail(nw_queue)
                      /\ nw_reply' = handle_command(nw_reply, s, result)
                      /\ nw_sub' = [nw_sub EXCEPT ![s].served = @ + 1]
                      /\ ret' = [op |-> "handle_command", kind |-> result,
                                 from |-> s]
               /\ UNCHANGED nw_connected
    /\ UNCHANGED <<nw_run, nw_swarm, nw_shutdown_tx, nw_shutdown_sig,
                   nw_command_rx>>
    /\ UNCHANGED <<pm_vars, lg_vars, adapters, ht_vars, rt_vars, ext_vars>>

\* The owner stops awaiting run (the other branch of its select completed,
\* its timeout elapsed): the future is dropped at the await of line 243,
\* and with it the shutdown receiver and the command receiver with the
\* commands still queued. The node is the owner's again.
RunDropped ==
    /\ nw_run = "awaited"
    /\ nw_run' = "owned"
    /\ nw_command_rx' = "dropped"
    /\ nw_queue' = <<>>
    /\ nw_reply' = DropQueued(nw_reply, nw_queue)
    /\ nw_shutdown_sig' = FALSE
    /\ ret' = [op |-> "run", kind |-> "dropped", started |-> nw_swarm]
    /\ UNCHANGED <<nw_swarm, nw_connected, nw_shutdown_tx, nw_sub>>
    /\ UNCHANGED <<pm_vars, lg_vars, adapters, ht_vars, rt_vars, ext_vars>>

NextRestart ==
    \/ NodeStart
    \/ NodeStop
    \/ RunAwaited
    \/ \E branch \in {"swarm", "command"} : AwaitedTake(branch)
    \/ RunDropped
    \/ \E s \in Submitters : CommandSender(s)
    \/ \E s \in Submitters : Submit(s)
    \/ \E s \in Submitters : Send(s)
    \/ \E s \in Submitters : Await(s)

\* What the scheduling gives: a spawned task gets to run; select picks
\* among its ready branches at random, so a branch that stays ready is
\* taken; the channel's semaphore queues its waiters, so a sender that
\* finds room again and again gets it; a task whose reply channel has
\* resolved is woken.
FairNetwork ==
    /\ WF_vars(Run)
    /\ WF_vars(LoopTake("command"))
    /\ WF_vars(LoopTake("shutdown"))
    /\ \A s \in Submitters : SF_vars(Send(s)) /\ WF_vars(Await(s))

(***************************************************************************)
(* The distributed routing table and the path finder                       *)
(* (gppn-routing/drt.rs, pathfinder.rs, route.rs, scoring.rs).             *)
(* Floating-point numbers are kept exact: a fee rate in hundredths, a      *)
(* trust score in tenths, a weight in hundredths, a score as a fraction.   *)
(* The binary heap hands out any one of its greatest nodes, and the table  *)
(* is iterated in the order of its hashes: where the order decides,        *)
(* find_routes has several possible results.                               *)
(***************************************************************************)

\* The peers of the overlay; all their DIDs are of the one method `key`.
Peers == {"A", "B", "C"}

\* Did::from_parts, Did::method, Did::identifier: "did:gppn:<method>:<id>".
from_parts(method, identifier_) == <<"did", "gppn", method, identifier_>>

method(did) == did[3]

identifier(did) == did[4]

\* The links that peers advertise, as <<next hop, destination>>: two ways
\* from A to C, the ways back, and a link from A to itself.
Links ==
    { <<"A", "A">>, <<"A", "B">>, <<"A", "C">>,
      <<"B", "A">>, <<"B", "C">>, <<"C", "B">> }

\* The nodes of the graph: the DIDs of the peers.
Nodes == { from_parts("key", peer) : peer \in Peers }

\* The links of a wider overlay, with a fourth peer D behind C: A reaches C
\* directly and through B.
WideLinks == { <<"A", "B">>, <<"B", "C">>, <<"A", "C">>, <<"C", "D">> }

\* Every node a table of the model can name.
AllNodes == Nodes \cup {from_parts("key", "D")}

Usd == [code |-> "USD", kind |-> "Fiat"]

Eur == [code |-> "EUR", kind |-> "Fiat"]

\* What a peer advertises about a path: a good one; one of low trust and a
\* fee of a half; one with too little liquidity for the amounts asked; one
\* in another currency.
Offers ==
    { [available_liquidity |-> 2, avg_latency_ms |-> 1, fee_rate |-> 0,
       supported_currencies |-> {Usd}, trust_score |-> 9],
      [available_liquidity |-> 2, avg_latency_ms |-> 1, fee_rate |-> 50,
       supported_currencies |-> {Usd}, trust_score |-> 2],
      [available_liquidity |-> 1, avg_latency_ms |-> 1, fee_rate |-> 0,
       supported_currencies |-> {Usd}, trust_score |-> 9],
      [available_liquidity |-> 2, avg_latency_ms |-> 1, fee_rate |-> 0,
       supported_currencies |-> {Eur}, trust_score |-> 9] }

RouteEntry(next_hop_peer_id, destination, offer) ==
    [available_liquidity |-> offer.available_liquidity,
     avg_latency_ms |-> offer.avg_latency_ms,
     destination_did |-> from_parts("key", destination),
     fee_rate |-> offer.fee_rate,
     hop_count |-> 1,
     last_updated |-> 0,
     next_hop_peer_id |-> next_hop_peer_id,
     supported_currencies |-> offer.supported_currencies,
     trust_score |-> offer.trust_score,
     ttl |-> 1]

supports_currency(entry, currency) == currency \in entry.supported_currencies

\* fee_for: ceil(amount * fee_rate).
fee_for(entry, amount) == (amount * entry.fee_rate + 99) \div 100

RouteKey(entry) == <<entry.destination_did, entry.next_hop_peer_id>>

is_empty(table) == DOMAIN table = {}

all_entries(table) == { table[key] : key \in DOMAIN table }

\* ScoringWeights::default, in hundredths.
ScoringWeights == [alpha |-> 25, beta |-> 25, delta |-> 20, gamma |-> 30]

\* PathFinderConfig: the hop limits and the trust thresholds (in tenths)
\* a path finder is built with.
PathFinderConfigs ==
    [max_hops : 1..MaxHopLimit, min_trust_score : {0, 5},
     weights : {ScoringWeights}]

\* PathFinderConfig::default.
DefaultConfig == [max_hops |-> 10, min_trust_score |-> 0,
                  weights |-> ScoringWeights]

Min(a, b) == IF a < b THEN a ELSE b

\* A fraction num/den; den = 0 stands for f64::MAX.
Fraction(num, den) == [den |-> den, num |-> num]

AtLeast(a, b) == a.num * b.den >= b.num * a.den

\* min(min_liquidity / amount, 1.0), or 1.0 for the amount 0.
liquidity_score(min_liquidity, amount) ==
    IF amount = 0 \/ min_liquidity >= amount
    THEN Fraction(1, 1)
    ELSE Fraction(min_liquidity, amount)

\* RouteScore::compute: alpha / (1 + cost) + beta / (1 + latency)
\*                        + gamma * trust + delta * liquidity.
compute(input, weights) ==
    LET c == 1 + input.total_cost
        l == 1 + input.total_latency_ms
        ls == input.liquidity_score
    IN  Fraction(weights.alpha * 10 * ls.den * l
                   + weights.beta * 10 * ls.den * c
                   + weights.gamma * input.trust_score * ls.den * c * l
                   + weights.delta * 10 * ls.num * c * l,
                 10 * ls.den * c * l)

RECURSIVE Sum(_)
\* Iterator::sum over a sequence of numbers.
Sum(values) == IF values = <<>> THEN 0 ELSE Head(values) + Sum(Tail(values))

RECURSIVE FoldMin(_, _)
\* Iterator::fold(top, min) over a sequence of numbers.
FoldMin(values, top) ==
    IF values = <<>> THEN top
    ELSE FoldMin(Tail(values), Min(top, Head(values)))

Route(hops, currency, amount) ==
    [amount |-> amount, currency |-> currency, hops |-> hops]

\* Route::total_cost: each hop's fee on the original amount.
total_cost(route) ==
    Sum([i \in 1..Len(route.hops) |-> fee_for(route.hops[i], route.amount)])

\* Route::estimated_latency.
estimated_latency(route) ==
    Sum([i \in 1..Len(route.hops) |-> route.hops[i].avg_latency_ms])

\* Route::min_liquidity: the least liquidity of the hops, 0 without hops.
min_liquidity(route) ==
    IF route.hops = <<>> THEN 0
    ELSE FoldMin([i \in 1..Len(route.hops) |->
                     route.hops[i].available_liquidity],
                 route.hops[1].available_liquidity)

\* Route::min_trust_score: the fold of min from infinity; a route that
\* find_routes returns has a hop.
min_trust_score(route) ==
    FoldMin([i \in 1..Len(route.hops) |-> route.hops[i].trust_score],
            route.hops[1].trust_score)

\* Route::score.
score(route, weights) ==
    compute([liquidity_score |->
                 liquidity_score(min_liquidity(route), route.amount),
             total_cost |-> total_cost(route),
             total_latency_ms |-> estimated_latency(route),
             trust_score |-> min_trust_score(route)],
            weights)

\* A plausible slip: the entries are filtered by currency only.
usable_any_liquidity(entry, amount, currency) ==
    supports_currency(entry, currency)

\* build_adjacency, lines 271-275: the entries the graph is made of.
usable(entry, amount, currency) ==
    supports_currency(entry, currency) /\ entry.available_liquidity >= amount

\* build_adjacency, lines 277-304: the DID that stands for a peer id: that
\* of a destination with this identifier, or else one made from the peer
\* id with the method of an entry of the table.
peer_to_did_uri(entries, peer_id) ==
    IF \E e \in entries : identifier(e.destination_did) = peer_id
    THEN (CHOOSE e \in entries :
              identifier(e.destination_did) = peer_id).destination_did
    ELSE from_parts(method((CHOOSE e \in entries : TRUE).destination_did),
                    peer_id)

\* build_adjacency: the edges of the graph, each from the DID of the
\* entry's next-hop peer to the entry's destination.
build_adjacency(table, amount, currency) ==
    LET entries == { e \in all_entries(table) : usable(e, amount, currency) }
    IN  { [entry |-> e,
           source |-> peer_to_did_uri(entries, e.next_hop_peer_id),
           target |-> e.destination_did] : e \in entries }

\* A plausible slip: the search does not look for loops.
revisits_never(path, next_node, source_uri) == FALSE

\* find_routes, lines 180-186: the loop detection.
revisits(path, next_node, source_uri) ==
    \/ \E i \in 1..Len(path) : path[i].destination_did = next_node
    \/ next_node = source_uri

\* A plausible slip: the trust threshold is not applied.
below_trust_never(new_min_trust, config) == FALSE

\* find_routes, lines 188-192: the trust threshold.
below_trust(new_min_trust, config) == new_min_trust < config.min_trust_score

\* A plausible slip: the hop limit is tested one hop late.
hops_exhausted_late(path, config) == Len(path) > config.max_hops

\* find_routes, lines 172-175: the hop limit.
hops_exhausted(path, config) == Len(path) >= config.max_hops

\* find_routes, lines 148-150: the search stops at max_routes routes.
enough_routes(found_routes, max_routes) == Len(found_routes) >= max_routes

\* The start node of the search, and the node that an edge leads to.
StartNode(source_uri) ==
    [min_liquidity |-> [max |-> TRUE, value |-> 0], min_trust |-> 10,
     node_id |-> source_uri, path |-> <<>>, score |-> Fraction(1, 0),
     total_cost |-> 0, total_latency_ms |-> 0]

\* find_routes, lines 194-226: the node pushed for an edge out of `current`.
NextNode(current, edge, amount, config) ==
    LET entry == edge.entry
        new_min_trust == Min(current.min_trust, entry.trust_score)
        new_total_cost == current.total_cost + fee_for(entry, amount)
        new_total_latency == current.total_latency_ms + entry.avg_latency_ms
        new_min_liquidity ==
            IF current.min_liquidity.max
            THEN entry.available_liquidity
            ELSE Min(current.min_liquidity.value, entry.available_liquidity)
    IN  [min_liquidity |-> [max |-> FALSE, value |-> new_min_liquidity],
         min_trust |-> new_min_trust,
         node_id |-> edge.target,
         path |-> Append(current.path, entry),
         score |-> compute([liquidity_score |->
                                liquidity_score(new_min_liquidity, amount),
                            total_cost |-> new_total_cost,
                            total_latency_ms |-> new_total_latency,
                            trust_score |-> new_min_trust],
                           config.weights),
         total_cost |-> new_total_cost,
         total_latency_ms |-> new_total_latency]

\* find_routes, lines 176-227: the nodes pushed when `current` is expanded.
Expand(current, adjacency, q, config) ==
    { NextNode(current, edge, q.amount, config) :
        edge \in { e \in adjacency :
                     /\ e.source = current.node_id
                     /\ ~revisits(current.path, e.target, q.source_uri)
                     /\ ~below_trust(Min(current.min_trust,
                                         e.entry.trust_score), config) } }

\* BinaryHeap::pop: one of the nodes with the greatest score.
Greatest(heap) == { n \in heap : \A m \in heap : AtLeast(n.score, m.score) }

RECURSIVE Search(_, _, _, _, _, _)
\* find_routes, lines 147-227: the loop over the heap; the sequences of
\* routes it can end with.
Search(q, config, adjacency, heap, visit_counts, found_routes) ==
    IF heap = {} THEN {found_routes}
    ELSE UNION {
        LET rest == heap \ {current}
            count == visit_counts[current.node_id] + 1
            counts == [visit_counts EXCEPT ![current.node_id] = count]
        IN  IF enough_routes(found_routes, q.max_routes)
            THEN {found_routes}
            ELSE IF count > q.max_routes
            THEN Search(q, config, adjacency, rest, counts, found_routes)
            ELSE IF current.node_id = q.dest_uri
            THEN Search(q, config, adjacency, rest, counts,
                        IF current.path # <<>>
                        THEN Append(found_routes,
                                    Route(current.path, q.currency, q.amount))
                        ELSE found_routes)
            ELSE IF hops_exhausted(current.path, config)
            THEN Search(q, config, adjacency, rest, counts, found_routes)
            ELSE Search(q, config, adjacency,
                        rest \cup Expand(current, adjacency, q, config),
                        counts, found_routes)
        : current \in Greatest(heap) }

\* A plausible slip: the routes are sorted worst first.
sorts_before_ascending(a, b, weights) ==
    ~AtLeast(score(a, weights), score(b, weights))

\* find_routes, lines 237-243: the comparison of the sort, best first.
sorts_before(a, b, weights) ==
    ~AtLeast(score(b, weights), score(a, weights))

RECURSIVE sort_by(_, _)
\* slice::sort_by, a stable sort: each route goes before the first route
\* that it sorts before.
sort_by(routes, weights) ==
    IF routes = <<>> THEN <<>>
    ELSE LET n == Len(routes)
             sorted == sort_by(SubSeq(routes, 1, n - 1), weights)
             last == routes[n]
             after == { i \in 1..Len(sorted) :
                          sorts_before(last, sorted[i], weights) }
             place == IF after = {} THEN Len(sorted) + 1
                      ELSE CHOOSE i \in after : \A j \in after : i <= j
         IN  SubSeq(sorted, 1, place - 1) \o <<last>>
               \o SubSeq(sorted, place, Len(sorted))

\* A plausible slip: the entries are taken out of the table to be read.
table_after_drain(table) == EmptyMap

\* find_routes borrows the table and reads it with is_empty and
\* all_entries, which clone what they return.
table_after(table) == table

\* find_routes: what it can return for the query `q`.
find_routes(table, config, q) ==
    IF is_empty(table)
    THEN { [kind |-> "EmptyRoutingTable", routes |-> <<>>] }
    ELSE { IF found_routes = <<>>
           THEN [kind |-> "NoRouteFound", routes |-> <<>>]
           ELSE [kind |-> "Ok",
                 routes |-> sort_by(found_routes, config.weights)]
         : found_routes \in
             Search(q, config,
                    build_adjacency(table, q.amount, q.currency),
                    {StartNode(q.source_uri)},
                    [node \in AllNodes |-> 0],
                    <<>>) }

Query(from, to, amount, currency, max_routes) ==
    [amount |-> amount, currency |-> currency, dest_uri |-> to,
     max_routes |-> max_routes, source_uri |-> from]

\* DistributedRoutingTable::insert: the entry is stored under its key, over
\* any entry that was there.
Insert(next_hop_peer_id, destination, offer) ==
    LET entry == RouteEntry(next_hop_peer_id, destination, offer)
    IN  /\ \/ RouteKey(entry) \in DOMAIN drt
            \/ Cardinality(DOMAIN drt) < MaxEntries
        /\ drt' = MapPut(drt, RouteKey(entry), entry)
        /\ ret' = [kind |-> "Ok", op |-> "insert"]
    /\ UNCHANGED pf_config
    /\ UNCHANGED <<pm_vars, lg_vars, adapters, ht_vars, nw_vars, ext_vars>>

\* PathFinder::find_routes, from the DID of peer A.
FindRoutes(to, amount, currency, max_routes) ==
    LET q == Query(from_parts("key", "A"), to, amount, currency, max_routes)
    IN  /\ \E result \in find_routes(drt, pf_config, q) :
              ret' = [kind |-> result.kind, op |-> "find_routes", q |-> q,
                      routes |-> result.routes]
        /\ drt' = table_after(drt)
        /\ UNCHANGED pf_config
        /\ UNCHANGED <<pm_vars, lg_vars, adapters, ht_vars, nw_vars, ext_vars>>

\* DistributedRoutingTable::insert of an entry for a link of the wider
\* overlay.
InsertWide(next_hop_peer_id, destination, offer) ==
    LET entry == RouteEntry(next_hop_peer_id, destination, offer)
    IN  /\ drt' = MapPut(drt, RouteKey(entry), entry)
        /\ ret' = [kind |-> "Ok", op |-> "insert"]
    /\ UNCHANGED pf_config
    /\ UNCHANGED <<pm_vars, lg_vars, adapters, ht_vars, nw_vars, ext_vars>>

\* The wider overlay: routes are asked from A to D.
NextRoutingWide ==
    \/ \E link \in WideLinks,
          offer \in { o \in Offers : Usd \in o.supported_currencies } :
          InsertWide(link[1], link[2], offer)
    \/ \E max_routes \in 0..MaxRoutes :
          FindRoutes(from_parts("key", "D"), 2, Usd, max_routes)

NextRouting ==
    \/ \E link \in Links, offer \in Offers :
          Insert(link[1], link[2], offer)
    \/ \E to \in Nodes \ {from_parts("key", "B")},
          max_routes \in 0..MaxRoutes :
          FindRoutes(to, 2, Usd, max_routes)

(***************************************************************************)
(* Route advertisements (gppn-routing/advertisement.rs) and the validity   *)
(* of route entries.                                                       *)
(***************************************************************************)

\* The f64 that is not a number, which `<` and `>` never hold of; it stands
\* apart from every fee rate and trust score of the model.
NaN == 999

\* `x < bound` and `x > bound` on f64: false when x is not a number.
FloatBelow(x, bound) == x # NaN /\ x < bound

FloatAbove(x, bound) == x # NaN /\ x > bound

\* u32::MAX at the model's width.
MaxHopCount == Pow2(HopBits) - 1

\* RouteEntry::validate.
validate_entry(entry) ==
    IF entry.next_hop_peer_id = "" THEN "InvalidRouteEntry"
    ELSE IF FloatBelow(entry.fee_rate, 0) \/ FloatAbove(entry.fee_rate, 100)
    THEN "InvalidRouteEntry"
    ELSE IF FloatBelow(entry.trust_score, 0) \/ FloatAbove(entry.trust_score, 10)
    THEN "InvalidRouteEntry"
    ELSE IF entry.supported_currencies = {} THEN "InvalidRouteEntry"
    ELSE "Ok"

\* What a destination announcement says of the path: a good one; a fee rate
\* of 1.5; a trust score that is not a number; no currency at all.
Paths ==
    { [available_liquidity |-> 2, avg_latency_ms |-> 1, fee_rate |-> 0,
       supported_currencies |-> {Usd}, trust_score |-> 9],
      [available_liquidity |-> 2, avg_latency_ms |-> 1, fee_rate |-> 150,
       supported_currencies |-> {Usd}, trust_score |-> 9],
      [available_liquidity |-> 2, avg_latency_ms |-> 1, fee_rate |-> 0,
       supported_currencies |-> {Usd}, trust_score |-> NaN],
      [available_liquidity |-> 2, avg_latency_ms |-> 1, fee_rate |-> 0,
       supported_currencies |-> {}, trust_score |-> 9] }

GoodPath == CHOOSE path \in Paths :
    /\ path.fee_rate = 0
    /\ path.trust_score = 9
    /\ path.supported_currencies # {}

\* DestinationAnnouncement.
DestinationAnnouncement(destination, path, hop_count) ==
    [available_liquidity |-> path.available_liquidity,
     avg_latency_ms |-> path.avg_latency_ms,
     destination_did |-> from_parts("key", destination),
     fee_rate |-> path.fee_rate,
     hop_count |-> hop_count,
     supported_currencies |-> path.supported_currencies,
     trust_score |-> path.trust_score]

\* The announcements peers make: of B, the good path at hop count 0, at the
\* hop limit and at u32::MAX; of C, each of the other paths at hop count 0.
Announcements ==
    { DestinationAnnouncement("B", GoodPath, hop_count) :
          hop_count \in {0, MaxHopLimit, MaxHopCount} }
      \cup { DestinationAnnouncement("C", path, 0) : path \in Paths \ {GoodPath} }

\* The lists of at most MaxAnnounced announcements.
AnnouncementLists ==
    UNION { [1..n -> Announcements] : n \in 0..MaxAnnounced }

\* RouteAdvertisement::new.
RouteAdvertisement(advertiser_peer_id, reachable_destinations) ==
    [advertiser_peer_id |-> advertiser_peer_id,
     created_at |-> 0,
     reachable_destinations |-> reachable_destinations,
     ttl |-> 1]

\* The advertisements received: any list from peer A, and one announcement
\* from a peer with no id.
Advertisements ==
    { RouteAdvertisement("A", list) : list \in AnnouncementLists }
      \cup { RouteAdvertisement(
                 "", <<DestinationAnnouncement("B", GoodPath, 0)>>) }

\* RouteAdvertisement::validate: the first check that fails, over the peer
\* id, the list and then each destination in turn.
validate_advertisement(advert) ==
    IF advert.advertiser_peer_id = "" THEN "InvalidRouteEntry"
    ELSE IF advert.reachable_destinations = <<>> THEN "InvalidRouteEntry"
    ELSE IF \E i \in 1..Len(advert.reachable_destinations) :
               LET dest == advert.reachable_destinations[i]
               IN  \/ FloatBelow(dest.fee_rate, 0)
                   \/ FloatAbove(dest.fee_rate, 100)
                   \/ FloatBelow(dest.trust_score, 0)
                   \/ FloatAbove(dest.trust_score, 10)
    THEN "InvalidRouteEntry"
    ELSE "Ok"

\* process_advertisement, lines 177-188: the entry built for a destination.
advertised_entry(advert, dest, effective_hop_count) ==
    [available_liquidity |-> dest.available_liquidity,
     avg_latency_ms |-> dest.avg_latency_ms,
     destination_did |-> dest.destination_did,
     fee_rate |-> dest.fee_rate,
     hop_count |-> effective_hop_count,
     last_updated |-> advert.created_at,
     next_hop_peer_id |-> advert.advertiser_peer_id,
     supported_currencies |-> dest.supported_currencies,
     trust_score |-> dest.trust_score,
     ttl |-> advert.ttl]

\* process_advertisement, lines 168-196: the loop over the destinations from
\* the i-th on. `dest.hop_count + 1` is u32 arithmetic: at u32::MAX it
\* panics under overflow checks and wraps to 0 without them.
RECURSIVE ingest(_, _, _, _, _, _)
ingest(table, advert, i, count, max_hops, checks) ==
    IF i > Len(advert.reachable_destinations)
    THEN [table |-> table, kind |-> "Ok", count |-> count]
    ELSE LET dest == advert.reachable_destinations[i]
             effective_hop_count == (dest.hop_count + 1) % Pow2(HopBits)
         IN  IF checks /\ dest.hop_count + 1 > MaxHopCount
             THEN [table |-> table, kind |-> "panic", count |-> count]
             ELSE IF effective_hop_count > max_hops
             THEN ingest(table, advert, i + 1, count, max_hops, checks)
             ELSE LET entry ==
                          advertised_entry(advert, dest, effective_hop_count)
                  IN  ingest(MapPut(table, RouteKey(entry), entry), advert,
                             i + 1, count + 1, max_hops, checks)

\* A plausible slip: the advertisement is ingested without being validated.
admitted_always(advert) == "Ok"

\* process_advertisement, line 166: `advert.validate()?`.
admitted(advert) == validate_advertisement(advert)

\* process_advertisement: what it leaves in the table and what it returns.
process_advertisement(table, advert, max_hops, checks) ==
    IF admitted(advert) # "Ok"
    THEN [table |-> table, kind |-> admitted(advert), count |-> 0]
    ELSE ingest(table, advert, 1, 0, max_hops, checks)

\* A call of process_advertisement on the table.
ProcessAdvertisement(advert, max_hops) ==
    LET result == process_advertisement(drt, advert, max_hops, overflow_checks)
    IN  /\ drt' = result.table
        /\ ret' = [advert |-> advert, before |-> drt, count |-> result.count,
                   kind |-> result.kind, max_hops |-> max_hops,
                   op |-> "process_advertisement"]
        /\ UNCHANGED pf_config
        /\ UNCHANGED <<pm_vars, lg_vars, adapters, ht_vars, nw_vars, ext_vars>>

\* The entries a caller hands to insert: one with no next hop, one with a
\* fee rate of 1.5.
DirectEntries ==
    { advertised_entry(RouteAdvertisement("", <<>>),
                       DestinationAnnouncement("B", GoodPath, 0), 1),
      advertised_entry(RouteAdvertisement("A", <<>>),
                       DestinationAnnouncement(
                           "B", CHOOSE path \in Paths : path.fee_rate = 150, 0),
                       1) }

\* DistributedRoutingTable::insert with an entry of the caller's making: it
\* is stored as it is, over any entry of the same key.
InsertEntry(entry) ==
    /\ drt' = MapPut(drt, RouteKey(entry), entry)
    /\ ret' = [kind |-> "Ok", op |-> "insert"]
    /\ UNCHANGED pf_config
    /\ UNCHANGED <<pm_vars, lg_vars, adapters, ht_vars, nw_vars, ext_vars>>

NextAdvertisement ==
    \/ \E advert \in Advertisements :
          ProcessAdvertisement(advert, MaxHopLimit)
    \/ \E entry \in DirectEntries : InsertEntry(entry)

(***************************************************************************)
(* The routing table under concurrent callers (gppn-routing/drt.rs). The   *)
(* table is a DashMap: its keys are spread over shards, each behind its    *)
(* own read-write lock. insert, remove and get_mut take the write lock of  *)
(* the key's shard; len and retain visit the shards in order, locking one  *)
(* at a time.                                                              *)
(***************************************************************************)

Shards == {1, 2}

\* The keys the callers use, one in each shard.
TableKeys == { <<from_parts("key", "B"), "A">>, <<from_parts("key", "C"), "A">> }

\* DashMap::determine_shard: the shard of a key, by its hash.
determine_shard(key) == IF key[1] = from_parts("key", "B") THEN 1 ELSE 2

\* The instants entries are stamped with, and the instants of the sweeps.
Stamps == {0, 2}

Nows == {1, 3}

\* An entry of a key, last updated at an instant, with a time to live of 1.
TableEntry(key, last_updated) ==
    [available_liquidity |-> 2,
     avg_latency_ms |-> 1,
     destination_did |-> key[1],
     fee_rate |-> 0,
     hop_count |-> 1,
     last_updated |-> last_updated,
     next_hop_peer_id |-> key[2],
     supported_currencies |-> {Usd},
     trust_score |-> 9,
     ttl |-> 1]

\* RouteEntry::is_expired: the elapsed time, when it is not negative, is at
\* least the time to live.
is_expired(entry, now) ==
    /\ now - entry.last_updated >= 0
    /\ now - entry.last_updated >= entry.ttl

\* A task that is in no call on the table.
TableIdle ==
    [pc |-> "idle", key |-> <<from_parts("key", "B"), "A">>, now |-> 0,
     loaded |-> 0, shard |-> 1, before |-> 0, after |-> 0, removed |-> 0,
     calls |-> 0]

\* A plausible slip: get_mut hands out the entry without holding the lock.
holds_write_lock_never(task, shard) == FALSE

\* Whether a task holds the write lock of a shard: from get_mut until the
\* RefMut is dropped at the end of update.
holds_write_lock(task, shard) ==
    /\ task.pc \in {"load", "store", "drop"}
    /\ determine_shard(task.key) = shard

\* Whether a shard's lock can be taken by task t.
Free(t, shard) ==
    \A other \in Tasks \ {t} : ~holds_write_lock(dt_task[other], shard)

TableGoto(t, pc) == dt_task' = [dt_task EXCEPT ![t].pc = pc]

TableDone(t) ==
    dt_task' = [dt_task EXCEPT ![t] =
                   [TableIdle EXCEPT !.calls = dt_task[t].calls + 1]]

TableCalled(t, op) ==
    [op |-> op, task |-> t, call |-> dt_task[t].calls + 1]

TableFrame ==
    /\ UNCHANGED pf_config
    /\ UNCHANGED <<pm_vars, lg_vars, adapters, ht_vars, nw_vars>>
    /\ UNCHANGED <<vr_vars, cs_vars, ev_vars, tg_vars, late_vars>>

Begins(t) == dt_task[t].pc = "idle" /\ dt_task[t].calls < MaxTableCalls

\* DistributedRoutingTable::insert, under the write lock of the key's shard.
TaskInsert(t, key, last_updated) ==
    /\ Begins(t)
    /\ Free(t, determine_shard(key))
    /\ drt' = MapPut(drt, key, TableEntry(key, last_updated))
    /\ TableDone(t)
    /\ ret' = TableCalled(t, "insert")
    /\ TableFrame

\* DistributedRoutingTable::remove, under the write lock of the key's shard.
TaskRemove(t, key) ==
    /\ Begins(t)
    /\ Free(t, determine_shard(key))
    /\ drt' = [k \in DOMAIN drt \ {key} |-> drt[k]]
    /\ TableDone(t)
    /\ ret' = TableCalled(t, "remove")
    /\ TableFrame

\* update, lines 155-161: get_mut takes the write lock of the key's shard;
\* with no entry under the key the lock is dropped and update returns false.
TaskUpdateGetMut(t, key) ==
    /\ Begins(t)
    /\ Free(t, determine_shard(key))
    /\ IF key \in DOMAIN drt
       THEN /\ dt_task' = [dt_task EXCEPT ![t].pc = "load", ![t].key = key]
            /\ UNCHANGED ret
       ELSE /\ TableDone(t)
            /\ ret' = [op |-> "update", task |-> t,
                       call |-> dt_task[t].calls + 1,
                       key |-> key, found |-> FALSE]
    /\ UNCHANGED drt
    /\ TableFrame

\* The updater, through the mutable reference: it reads the liquidity ...
TaskUpdateLoad(t) ==
    /\ dt_task[t].pc = "load"
    /\ dt_task' =
           [dt_task EXCEPT
               ![t].pc = "store",
               ![t].loaded =
                   IF dt_task[t].key \in DOMAIN drt
                   THEN drt[dt_task[t].key].available_liquidity ELSE 0]
    /\ UNCHANGED <<drt, ret>>
    /\ TableFrame

\* ... and writes it back, one greater.
TaskUpdateStore(t) ==
    /\ dt_task[t].pc = "store"
    /\ drt' = IF dt_task[t].key \in DOMAIN drt
              THEN [drt EXCEPT ![dt_task[t].key].available_liquidity =
                                   dt_task[t].loaded + 1]
              ELSE drt
    /\ TableGoto(t, "drop")
    /\ UNCHANGED ret
    /\ TableFrame

\* update, line 157: the RefMut is dropped and update returns true.
TaskUpdateReturn(t) ==
    /\ dt_task[t].pc = "drop"
    /\ TableDone(t)
    /\ ret' = [op |-> "update", task |-> t, call |-> dt_task[t].calls + 1,
               key |-> dt_task[t].key, found |-> TRUE]
    /\ UNCHANGED drt
    /\ TableFrame

\* The keys of a shard that the table holds.
KeysIn(table, shard) ==
    { key \in DOMAIN table : determine_shard(key) = shard }

\* remove_expired, line 143: `let before = self.table.len()` begins.
TaskExpiredBegin(t, now) ==
    /\ Begins(t)
    /\ dt_task' = [dt_task EXCEPT ![t].pc = "len_before", ![t].now = now,
                                  ![t].shard = 1]
    /\ UNCHANGED <<drt, ret>>
    /\ TableFrame

\* The next shard of a pass over the shards, or the next pass.
NextShard(task, next_pc) ==
    IF task.shard + 1 \in Shards
    THEN [task EXCEPT !.shard = task.shard + 1]
    ELSE [task EXCEPT !.shard = 1, !.pc = next_pc]

\* DashMap::len: the length of one shard is added to the sum.
TaskExpiredLenBefore(t) ==
    /\ dt_task[t].pc = "len_before"
    /\ Free(t, dt_task[t].shard)
    /\ dt_task' =
           [dt_task EXCEPT ![t] =
               NextShard([dt_task[t] EXCEPT
                             !.before = dt_task[t].before + Cardinality(
                                            KeysIn(drt, dt_task[t].shard))],
                         "retain")]
    /\ UNCHANGED <<drt, ret>>
    /\ TableFrame

\* remove_expired, line 144: retain drops the expired entries of one shard
\* under its write lock.
TaskExpiredRetain(t) ==
    LET gone == { key \in KeysIn(drt, dt_task[t].shard) :
                      is_expired(drt[key], dt_task[t].now) }
    IN  /\ dt_task[t].pc = "retain"
        /\ Free(t, dt_task[t].shard)
        /\ drt' = [k \in DOMAIN drt \ gone |-> drt[k]]
        /\ dt_task' =
               [dt_task EXCEPT ![t] =
                   NextShard([dt_task[t] EXCEPT
                                 !.removed = dt_task[t].removed
                                               + Cardinality(gone)],
                             "len_after")]
        /\ UNCHANGED ret
        /\ TableFrame

\* remove_expired, line 145: `self.table.len()`, shard by shard.
TaskExpiredLenAfter(t) ==
    /\ dt_task[t].pc = "len_after"
    /\ Free(t, dt_task[t].shard)
    /\ dt_task' =
           [dt_task EXCEPT ![t] =
               NextShard([dt_task[t] EXCEPT
                             !.after = dt_task[t].after + Cardinality(
                                           KeysIn(drt, dt_task[t].shard))],
                         "subtract")]
    /\ UNCHANGED <<drt, ret>>
    /\ TableFrame

\* remove_expired, line 145: `before - after` in usize. When the table has
\* grown the subtraction panics under overflow checks and wraps around
\* without them; a negative count stands for the wrapped value, that much
\* below 2^64.
TaskExpiredReturn(t) ==
    /\ dt_task[t].pc = "subtract"
    /\ TableDone(t)
    /\ ret' = [op |-> "remove_expired", task |-> t,
               call |-> dt_task[t].calls + 1,
               kind |-> IF dt_task[t].after > dt_task[t].before
                           /\ overflow_checks
                        THEN "panic" ELSE "Ok",
               count |-> dt_task[t].before - dt_task[t].after,
               removed |-> dt_task[t].removed]
    /\ UNCHANGED drt
    /\ TableFrame

NextTableTasks ==
    \E t \in Tasks :
        \/ \E key \in TableKeys, last_updated \in Stamps :
              TaskInsert(t, key, last_updated)
        \/ \E key \in TableKeys : TaskRemove(t, key)
        \/ \E key \in TableKeys : TaskUpdateGetMut(t, key)
        \/ TaskUpdateLoad(t)
        \/ TaskUpdateStore(t)
        \/ TaskUpdateReturn(t)
        \/ \E now \in Nows : TaskExpiredBegin(t, now)
        \/ TaskExpiredLenBefore(t)
        \/ TaskExpiredRetain(t)
        \/ TaskExpiredLenAfter(t)
        \/ TaskExpiredReturn(t)

(***************************************************************************)
(* Credential verifier                                                     *)
(***************************************************************************)

\* The issuer of the credentials verified, and the key pairs in play.
IssuerDid == "did:veritas:key:issuer"

KeyPairs == {"kp1", "kp2"}

\* VerifiableCredential, as far as the verifier reads it: the issuer, the
\* proof (absent, or the signature of one key pair) and the expiration date
\* (absent, or an instant).
VerifiableCredential(issuer, proof, expiration_date) ==
    [expiration_date |-> expiration_date, issuer |-> issuer, proof |-> proof]

Credentials ==
    { VerifiableCredential(IssuerDid, proof, expiration_date) :
        proof \in {{}} \cup {{kp} : kp \in KeyPairs},
        expiration_date \in {{}} \cup {{at} : at \in Stamps} }

\* VerifiableCredential::is_signed
is_signed(credential) == credential.proof # {}

\* VerifiableCredential::is_expired, when the clock reads `now`.
credential_is_expired(credential, now) ==
    \E exp \in credential.expiration_date : now > exp

\* VerifiableCredential::verify_proof(public_key).is_ok(), when the clock
\* reads `now`: a proof is attached, the credential has not expired, and the
\* signature is the one of the key pair the public key belongs to.
verify_proof(credential, public_key, now) ==
    /\ credential.proof # {}
    /\ ~(\E exp \in credential.expiration_date : now > exp)
    /\ credential.proof = {public_key}

VerificationCheck(name, passed) == [name |-> name, passed |-> passed]

\* A plausible slip: the signature check left out of the verdict.
is_valid_unsigned(signed, issuer_trusted, sig_valid, not_expired) ==
    signed /\ issuer_trusted /\ not_expired

\* The verdict of verify_credential.
is_valid(signed, issuer_trusted, sig_valid, not_expired) ==
    signed /\ issuer_trusted /\ sig_valid /\ not_expired

\* A task that is in no call on the verifier.
VerifierIdle ==
    [pc |-> "idle", credential |-> VerifiableCredential(IssuerDid, {}, {}),
     checks |-> <<>>, issuer_trusted |-> FALSE, sig_valid |-> FALSE,
     now |-> 0, calls |-> 0]

VerifierDone(t) ==
    vr_task' = [vr_task EXCEPT ![t] =
                   [VerifierIdle EXCEPT !.calls = vr_task[t].calls + 1]]

VerifierCalled(t, op) ==
    [op |-> op, task |-> t, call |-> vr_task[t].calls + 1]

VerifierFrame ==
    /\ UNCHANGED rt_vars
    /\ UNCHANGED <<pm_vars, lg_vars, adapters, ht_vars, nw_vars>>
    /\ UNCHANGED <<dt_vars, cs_vars, ev_vars, tg_vars, late_vars>>

VerifierBegins(t) ==
    vr_task[t].pc = "idle" /\ vr_task[t].calls < MaxVerifierCalls

\* CredentialVerifier::add_trusted_issuer
AddTrustedIssuer(t, did, public_key) ==
    /\ VerifierBegins(t)
    /\ vr_trusted' = MapPut(vr_trusted, did, public_key)
    /\ VerifierDone(t)
    /\ ret' = VerifierCalled(t, "add_trusted_issuer") @@ [kind |-> "Ok"]
    /\ VerifierFrame

\* CredentialVerifier::remove_trusted_issuer
RemoveTrustedIssuer(t, did) ==
    /\ VerifierBegins(t)
    /\ vr_trusted' = [d \in DOMAIN vr_trusted \ {did} |-> vr_trusted[d]]
    /\ VerifierDone(t)
    /\ ret' = VerifierCalled(t, "remove_trusted_issuer") @@
               [kind |-> "Ok", removed |-> did \in DOMAIN vr_trusted]
    /\ VerifierFrame

\* The end of a verify_credential call.
VerifyReturns(t, credential, kind, valid, checks) ==
    /\ VerifierDone(t)
    /\ ret' = VerifierCalled(t, "verify_credential") @@
               [kind |-> kind, credential |-> credential, valid |-> valid,
                checks |-> checks]

\* verify_credential, check 1: signature_present. An unsigned credential is
\* answered at once.
VerifySignaturePresent(t, credential) ==
    LET signed == is_signed(credential)
        checks == <<VerificationCheck("signature_present", signed)>>
    IN  /\ VerifierBegins(t)
        /\ IF ~signed
           THEN VerifyReturns(t, credential, "Ok", FALSE, checks)
           ELSE /\ vr_task' = [vr_task EXCEPT
                                  ![t].pc = "issuer_trusted",
                                  ![t].credential = credential,
                                  ![t].checks = checks]
                /\ UNCHANGED ret
        /\ UNCHANGED vr_trusted
        /\ VerifierFrame

\* verify_credential, check 2: issuer_trusted, by is_trusted_issuer.
VerifyIssuerTrusted(t) ==
    LET task == vr_task[t]
        issuer_trusted == task.credential.issuer \in DOMAIN vr_trusted
    IN  /\ task.pc = "issuer_trusted"
        /\ vr_task' = [vr_task EXCEPT
                          ![t].pc = "signature_valid",
                          ![t].issuer_trusted = issuer_trusted,
                          ![t].checks = Append(task.checks,
                              VerificationCheck("issuer_trusted",
                                                issuer_trusted))]
        /\ UNCHANGED <<ret, vr_trusted>>
        /\ VerifierFrame

\* verify_credential, check 3: signature_valid. For a trusted issuer the
\* key is looked up again and unwrapped, which panics if the issuer is no
\* longer in the map.
VerifySignatureValid(t, now) ==
    LET task == vr_task[t]
        issuer == task.credential.issuer
        sig_valid ==
            IF task.issuer_trusted
            THEN verify_proof(task.credential, vr_trusted[issuer], now)
            ELSE FALSE
    IN  /\ task.pc = "signature_valid"
        /\ IF task.issuer_trusted /\ issuer \notin DOMAIN vr_trusted
           THEN VerifyReturns(t, task.credential, "panic", FALSE,
                              task.checks)
           ELSE /\ vr_task' = [vr_task EXCEPT
                                  ![t].pc = "not_expired",
                                  ![t].sig_valid = sig_valid,
                                  ![t].now = now,
                                  ![t].checks = Append(task.checks,
                                      VerificationCheck("signature_valid",
                                                        sig_valid))]
                /\ UNCHANGED ret
        /\ UNCHANGED vr_trusted
        /\ VerifierFrame

\* verify_credential, check 4: not_expired, and the verdict. The clock is
\* read again, not before the reading of check 3.
VerifyNotExpired(t, now) ==
    LET task == vr_task[t]
        not_expired == ~credential_is_expired(task.credential, now)
        checks == Append(task.checks,
                         VerificationCheck("not_expired", not_expired))
    IN  /\ task.pc = "not_expired"
        /\ now >= task.now
        /\ VerifyReturns(t, task.credential, "Ok",
                         is_valid(is_signed(task.credential),
                                  task.issuer_trusted, task.sig_valid,
                                  not_expired),
                         checks)
        /\ UNCHANGED vr_trusted
        /\ VerifierFrame

NextVerifier ==
    \E t \in Tasks :
        \/ \E kp \in KeyPairs : AddTrustedIssuer(t, IssuerDid, kp)
        \/ RemoveTrustedIssuer(t, IssuerDid)
        \/ \E credential \in Credentials : VerifySignaturePresent(t, credential)
        \/ VerifyIssuerTrusted(t)
        \/ \E now \in Nows : VerifySignatureValid(t, now)
        \/ \E now \in Nows : VerifyNotExpired(t, now)

(***************************************************************************)
(* Credential state machine                                                *)
(***************************************************************************)

CredentialState ==
    {"Draft", "Issued", "Active", "Suspended", "Revoked", "Expired"}

CredentialEvent ==
    {"Issue", "Activate", "Suspend", "Reinstate", "Revoke", "Expire"}

\* CredentialState::is_final
credential_is_final(s) == s \in {"Revoked", "Expired"}

\* The `to` field of the InvalidStateTransition error: the state the event
\* names, whatever the current state.
CredentialEventTarget(event) ==
    CASE event = "Issue"     -> "Issued"
      [] event = "Activate"  -> "Active"
      [] event = "Suspend"   -> "Suspended"
      [] event = "Reinstate" -> "Active"
      [] event = "Revoke"    -> "Revoked"
      [] event = "Expire"    -> "Expired"

\* A plausible slip: Expire accepted wherever Revoke is, from Issued too.
credential_transition_expire_issued(current, event) ==
    CASE current = "Draft"     /\ event = "Issue"     -> Ok("Issued")
      [] current = "Issued"    /\ event = "Activate"  -> Ok("Active")
      [] current = "Issued"    /\ event = "Revoke"    -> Ok("Revoked")
      [] current = "Issued"    /\ event = "Expire"    -> Ok("Expired")
      [] current = "Active"    /\ event = "Suspend"   -> Ok("Suspended")
      [] current = "Active"    /\ event = "Revoke"    -> Ok("Revoked")
      [] current = "Active"    /\ event = "Expire"    -> Ok("Expired")
      [] current = "Suspended" /\ event = "Reinstate" -> Ok("Active")
      [] current = "Suspended" /\ event = "Revoke"    -> Ok("Revoked")
      [] current = "Suspended" /\ event = "Expire"    -> Ok("Expired")
      [] OTHER ->
            InvalidStateTransition(current, CredentialEventTarget(event))

\* CredentialStateMachine::transition: the match on (current, event).
credential_transition(current, event) ==
    CASE current = "Draft"     /\ event = "Issue"     -> Ok("Issued")
      [] current = "Issued"    /\ event = "Activate"  -> Ok("Active")
      [] current = "Issued"    /\ event = "Revoke"    -> Ok("Revoked")
      [] current = "Active"    /\ event = "Suspend"   -> Ok("Suspended")
      [] current = "Active"    /\ event = "Revoke"    -> Ok("Revoked")
      [] current = "Active"    /\ event = "Expire"    -> Ok("Expired")
      [] current = "Suspended" /\ event = "Reinstate" -> Ok("Active")
      [] current = "Suspended" /\ event = "Revoke"    -> Ok("Revoked")
      [] current = "Suspended" /\ event = "Expire"    -> Ok("Expired")
      [] OTHER ->
            InvalidStateTransition(current, CredentialEventTarget(event))

\* The holder of a credential applies an event:
\* state = CredentialStateMachine::transition(state, event)?
\* On Err the state is kept.
ApplyCredentialEvent(event) ==
    /\ Len(cs_trace) <= MaxCredentialEvents
    /\ LET r == credential_transition(cs_state, event)
       IN  /\ ret' = [op |-> "credential_transition", kind |-> "called",
                      from |-> cs_state, event |-> event, result |-> r]
           /\ cs_state' = IF r.ok THEN r.state ELSE cs_state
           /\ cs_trace' = Append(cs_trace, IF r.ok THEN r.state ELSE cs_state)
    /\ UNCHANGED <<pm_vars, lg_vars, adapters, ht_vars, nw_vars, rt_vars>>
    /\ UNCHANGED <<dt_vars, vr_vars, ev_vars, tg_vars, late_vars>>

NextCredential == \E event \in CredentialEvent : ApplyCredentialEvent(event)

(***************************************************************************)
(* Main event loop of the full node                                        *)
(***************************************************************************)

\* The network events sent: a peer connects, a peer disconnects, a payment
\* message comes in.
NetworkEvents ==
    {[kind |-> "PeerConnected", peer_id |-> "B"],
     [kind |-> "PeerDisconnected", peer_id |-> "B"],
     [kind |-> "IncomingPaymentMessage", peer_id |-> "B"]}

\* The number of events the channel has overwritten: it keeps the last
\* EventChannelCapacity events sent.
Overwritten ==
    IF Len(ev_buffer) > EventChannelCapacity
    THEN Len(ev_buffer) - EventChannelCapacity
    ELSE 0

\* event_rx.recv(), when it is ready: Lagged with the number of events
\* missed if events the receiver has not seen were overwritten, the next
\* event if there is one, Closed if there is none and the sender is gone.
recv ==
    IF ev_next < Overwritten
    THEN [kind |-> "Lagged", missed |-> Overwritten - ev_next]
    ELSE IF ev_next < Len(ev_buffer)
    THEN [kind |-> "Ok", event |-> ev_buffer[ev_next + 1]]
    ELSE [kind |-> "Closed"]

\* A plausible slip: the loop left on any receive error, a lag included.
keeps_running_ok_only(kind) == kind = "Ok"

\* Whether the loop goes round again after a result of event_rx.recv():
\* it breaks on Closed alone.
keeps_running(kind) == kind # "Closed"

\* NodeState.peers after handle_network_event.
handle_network_event(peers, event) ==
    CASE event.kind = "PeerConnected"    -> peers \cup {event.peer_id}
      [] event.kind = "PeerDisconnected" -> peers \ {event.peer_id}
      [] OTHER                           -> peers

EventLoopFrame ==
    /\ UNCHANGED ev_net
    /\ UNCHANGED <<pm_vars, lg_vars, adapters, ht_vars, nw_vars, rt_vars>>
    /\ UNCHANGED <<dt_vars, vr_vars, cs_vars, tg_vars, late_vars>>

\* GppnFullNode::start: the network is created and its task spawned, and
\* the node subscribes to its events.
FullNodeStart ==
    /\ ev_loop = "idle"
    /\ ev_loop' = "started"
    /\ ret' = [op |-> "start", kind |-> "Ok"]
    /\ UNCHANGED <<ev_buffer, ev_next, ev_closed, ev_log, ev_peers>>
    /\ EventLoopFrame

\* GppnFullNode::run, up to the loop.
FullNodeRun ==
    /\ ev_loop = "started"
    /\ ev_loop' = "running"
    /\ ret' = [op |-> "run", kind |-> "entered"]
    /\ UNCHANGED <<ev_buffer, ev_next, ev_closed, ev_log, ev_peers>>
    /\ EventLoopFrame

\* The network task sends an event: event_tx.send(..), while a receiver
\* is there.
EventSend(event) ==
    /\ ev_loop \in {"started", "running"}
    /\ ~ev_closed
    /\ Len(ev_buffer) < MaxBroadcast
    /\ ev_buffer' = Append(ev_buffer, event)
    /\ UNCHANGED <<ret, ev_loop, ev_next, ev_closed, ev_log, ev_peers>>
    /\ EventLoopFrame

\* The network task ends, and drops the sender with the GppnNode.
EventSenderDropped ==
    /\ ev_loop \in {"started", "running"}
    /\ ~ev_closed
    /\ ev_closed' = TRUE
    /\ UNCHANGED <<ret, ev_loop, ev_buffer, ev_next, ev_log, ev_peers>>
    /\ EventLoopFrame

\* One round of the loop of GppnFullNode::run, through the event arm of
\* the select.
EventLoopRecv ==
    LET r == recv
    IN  /\ ev_loop = "running"
        /\ r.kind = "Closed" => ev_closed
        /\ ev_next' = CASE r.kind = "Lagged" -> Overwritten
                        [] r.kind = "Ok"     -> ev_next + 1
                        [] OTHER             -> ev_next
        /\ ev_peers' = IF r.kind = "Ok"
                       THEN handle_network_event(ev_peers, r.event)
                       ELSE ev_peers
        /\ ev_log' = Append(ev_log, r)
        /\ ev_loop' = IF keeps_running(r.kind) THEN "running" ELSE "exited"
        /\ ret' = [op |-> "recv", kind |-> r.kind, at |-> Len(ev_log) + 1]
        /\ UNCHANGED <<ev_buffer, ev_closed>>
        /\ EventLoopFrame

\* One round of the loop through the command arm of the select. The loop
\* holds a sender of the command channel in its NodeState, so that
\* command_rx.recv() answers Some(command) or stays pending, never None.
EventLoopCommand ==
    /\ ev_loop = "running"
    /\ ret' = [op |-> "handle_api_command", kind |-> "Ok",
               at |-> Len(ev_log)]
    /\ UNCHANGED ev_vars
    /\ EventLoopFrame

\* event_tx.send(event), its error ignored: the event is kept if a
\* receiver is there.
sent(buffer, event) ==
    IF ev_loop \in {"started", "running"} THEN Append(buffer, event)
    ELSE buffer

PeersFrame ==
    /\ UNCHANGED <<ret, ev_loop, ev_next, ev_closed, ev_log, ev_peers>>
    /\ UNCHANGED <<pm_vars, lg_vars, adapters, ht_vars, nw_vars, rt_vars>>
    /\ UNCHANGED <<dt_vars, vr_vars, cs_vars, tg_vars, late_vars>>

\* handle_swarm_event, ConnectionEstablished: the peer is put among the
\* connected peers and PeerConnected is sent.
SwarmConnectionEstablished(peer_id) ==
    /\ ev_loop # "idle"
    /\ ev_established < MaxEstablished
    /\ Len(ev_buffer) < MaxBroadcast
    /\ ev_established' = ev_established + 1
    /\ ev_connected' = ev_connected \cup {peer_id}
    /\ ev_buffer' =
          sent(ev_buffer, [kind |-> "PeerConnected", peer_id |-> peer_id])
    /\ PeersFrame

\* handle_swarm_event, ConnectionClosed: the peer is taken from the
\* connected peers if no connection with it remains, and PeerDisconnected
\* is sent.
SwarmConnectionClosed(peer_id) ==
    /\ ev_loop # "idle"
    /\ ev_established > 0
    /\ Len(ev_buffer) < MaxBroadcast
    /\ ev_established' = ev_established - 1
    /\ ev_connected' = IF ev_established - 1 = 0
                       THEN ev_connected \ {peer_id}
                       ELSE ev_connected
    /\ ev_buffer' =
          sent(ev_buffer, [kind |-> "PeerDisconnected", peer_id |-> peer_id])
    /\ PeersFrame

\* The network task handling the swarm's connections, and the main loop.
NextPeers ==
    \/ FullNodeStart
    \/ FullNodeRun
    \/ SwarmConnectionEstablished("B")
    \/ SwarmConnectionClosed("B")
    \/ \E event \in { e \in NetworkEvents :
                         e.kind = "IncomingPaymentMessage" } :
          EventSend(event)
    \/ EventLoopRecv
    \/ EventLoopCommand

NextEventLoop ==
    \/ FullNodeStart
    \/ FullNodeRun
    \/ \E event \in NetworkEvents : EventSend(event)
    \/ EventSenderDropped
    \/ EventLoopRecv
    \/ EventLoopCommand

(***************************************************************************)
(* Trust graph                                                             *)
(***************************************************************************)

\* The keys of the edges in play: (from_did, to_did).
EdgeKeys == {<<"did:a", "did:b">>, <<"did:b", "did:a">>}

\* The weights given, in tenths: below the range, its two ends, inside it,
\* above it, and not a number.
Weights == {-15, -10, 0, 8, 10, 15, NaN}

\* A plausible slip: the range tested as in RouteEntry::validate, which a
\* weight that is not a number passes.
in_weight_range_unless_outside(weight) ==
    ~(FloatBelow(weight, -10) \/ FloatAbove(weight, 10))

\* (-1.0..=1.0).contains(&weight): -1.0 <= weight && weight <= 1.0, false
\* of a weight that is not a number.
in_weight_range(weight) ==
    /\ weight # NaN
    /\ -10 <= weight
    /\ weight <= 10

TrustEdge(key, weight, interactions) ==
    [from_did |-> key[1], interactions |-> interactions, to_did |-> key[2],
     weight |-> weight]

TrustGraphFrame ==
    /\ UNCHANGED <<pm_vars, lg_vars, adapters, ht_vars, nw_vars, rt_vars>>
    /\ UNCHANGED <<dt_vars, vr_vars, cs_vars, ev_vars, late_vars>>

\* TrustGraph::add_edge. The entry is modified or inserted under the write
\* lock of its shard, in one step.
AddEdge(key, weight) ==
    /\ tg_calls < MaxGraphCalls
    /\ tg_calls' = tg_calls + 1
    /\ IF ~in_weight_range(weight)
       THEN /\ ret' = [op |-> "add_edge", kind |-> "InvalidTrustWeight",
                       key |-> key, weight |-> weight, before |-> tg_edges]
            /\ UNCHANGED tg_edges
       ELSE /\ tg_edges' =
                  MapPut(tg_edges, key,
                         IF key \in DOMAIN tg_edges
                         THEN TrustEdge(key, weight,
                                        tg_edges[key].interactions + 1)
                         ELSE TrustEdge(key, weight, 1))
            /\ ret' = [op |-> "add_edge", kind |-> "Ok",
                       key |-> key, weight |-> weight, before |-> tg_edges]
    /\ TrustGraphFrame

\* TrustGraph::remove_edge
RemoveEdge(key) ==
    /\ tg_calls < MaxGraphCalls
    /\ tg_calls' = tg_calls + 1
    /\ tg_edges' = [k \in DOMAIN tg_edges \ {key} |-> tg_edges[k]]
    /\ ret' = [op |-> "remove_edge",
               kind |-> IF key \in DOMAIN tg_edges THEN "Some" ELSE "None",
               key |-> key, weight |-> 0, before |-> tg_edges]
    /\ TrustGraphFrame

NextTrustGraph ==
    \E key \in EdgeKeys :
        \/ \E weight \in Weights : AddEdge(key, weight)
        \/ RemoveEdge(key)

(***************************************************************************)
(* Admin API: POST /payments                                               *)
(***************************************************************************)

\* A client with no request under way.
NoRequest ==
    [pc |-> "idle", recipient |-> "none", reply |-> "none",
     network |-> "none", sent |-> 0]

\* The loop between two rounds, and the loop gone.
LoopSelects == [pc |-> "select", client |-> "none", command |-> "none"]

LoopExited == [pc |-> "exited", client |-> "none", command |-> "none"]

\* The recipients asked for: one that parses as a PeerId, one that does not.
Recipients == {"12D3KooWpeer", "did:gppn:key:B"}

\* What the network task makes of a command: it answers Ok, it answers
\* with an error, or it is gone and the reply sender is dropped.
NetworkAnswers == {"Ok", "Err", "dropped"}

\* The NetworkCommand handle_api_command sends for a recipient.
network_command(recipient) ==
    IF recipient = "12D3KooWpeer" THEN "SendDirectRequest"
    ELSE "BroadcastPayment"

\* What handle_api_command sends on the reply channel after the answer of
\* the network task.
reply_for(answer) ==
    CASE answer = "Ok"  -> "Ok"
      [] answer = "Err" -> "Err: network error"
      [] OTHER          -> "Err: network task did not respond"

\* The status handle_send_payment answers with for what it gets from the
\* reply channel; "dropped" is the reply sender dropped unused.
status_for(reply) ==
    CASE reply = "Ok"      -> 200
      [] reply = "dropped" -> 500
      [] OTHER             -> 400

\* The request of a client: none before its first.
request_of(c) == IF c \in DOMAIN ap_client THEN ap_client[c] ELSE NoRequest

ApiFrame ==
    /\ UNCHANGED <<pm_vars, lg_vars, adapters, ht_vars, nw_vars, rt_vars>>
    /\ UNCHANGED <<dt_vars, vr_vars, cs_vars, ev_vars, tg_vars, rl_vars>>

\* handle_send_payment, up to the await of the reply: the command is sent
\* to the main loop, or the request fails at once if the loop is gone.
ApiSendPayment(c, recipient) ==
    /\ request_of(c).pc = "idle"
    /\ request_of(c).sent < MaxPayments
    /\ IF ap_loop.pc = "exited"
       THEN /\ ap_client' = MapPut(ap_client, c,
                                   [request_of(c) EXCEPT !.sent = @ + 1])
            /\ ret' = [op |-> "send_payment", kind |-> "answered",
                       client |-> c, call |-> request_of(c).sent + 1,
                       network |-> "none", cause |-> "loop not running",
                       status |-> 500]
            /\ UNCHANGED ap_queue
       ELSE /\ ap_client' = MapPut(ap_client, c,
                                   [request_of(c) EXCEPT
                                       !.pc = "awaits",
                                       !.recipient = recipient])
            /\ ap_queue' = Append(ap_queue, c)
            /\ UNCHANGED ret
    /\ UNCHANGED ap_loop
    /\ ApiFrame

\* The command arm of the main loop and handle_api_command, up to the await
\* of the network task's reply.
ApiLoopTakes ==
    /\ ap_loop.pc = "select"
    /\ ap_queue # <<>>
    /\ ap_loop' = [pc |-> "awaits", client |-> Head(ap_queue),
                   command |-> network_command(ap_client[Head(ap_queue)].recipient)]
    /\ ap_queue' = Tail(ap_queue)
    /\ UNCHANGED <<ret, ap_client>>
    /\ ApiFrame

\* handle_api_command, from the network task's answer on: the reply is
\* sent to the client, and the loop goes round.
ApiLoopReplies(answer) ==
    /\ ap_loop.pc = "awaits"
    /\ ap_client' = [ap_client EXCEPT
                        ![ap_loop.client].reply = reply_for(answer),
                        ![ap_loop.client].network = answer]
    /\ ap_loop' = LoopSelects
    /\ UNCHANGED <<ret, ap_queue>>
    /\ ApiFrame

\* The main loop breaks, on a closed event channel, and run drops the
\* command receiver with the commands still in the channel.
ApiLoopExits ==
    /\ ap_loop.pc = "select"
    /\ ap_loop' = LoopExited
    /\ ap_client' = [c \in DOMAIN ap_client |->
                        IF \E i \in 1..Len(ap_queue) : ap_queue[i] = c
                        THEN [ap_client[c] EXCEPT !.reply = "dropped"]
                        ELSE ap_client[c]]
    /\ ap_queue' = <<>>
    /\ UNCHANGED ret
    /\ ApiFrame

\* handle_send_payment, from the reply on.
ApiAnswers(c) ==
    LET request == request_of(c)
    IN  /\ request.pc = "awaits"
        /\ request.reply # "none"
        /\ ap_client' = [ap_client EXCEPT
                            ![c] = [NoRequest EXCEPT !.sent = request.sent + 1]]
        /\ ret' = [op |-> "send_payment", kind |-> "answered",
                   client |-> c, call |-> request.sent + 1,
                   network |-> request.network,
                   cause |-> request.reply,
                   status |-> status_for(request.reply)]
        /\ UNCHANGED <<ap_queue, ap_loop>>
        /\ ApiFrame

NextApi ==
    \/ \E c \in Submitters, recipient \in Recipients :
            ApiSendPayment(c, recipient)
    \/ ApiLoopTakes
    \/ \E answer \in NetworkAnswers : ApiLoopReplies(answer)
    \/ ApiLoopExits
    \/ \E c \in Submitters : ApiAnswers(c)

(***************************************************************************)
(* Advertisements relayed along a chain of nodes (advertisement.rs): the   *)
(* first node announces itself, each further node ingests what the node    *)
(* before it published and re-advertises its own table. What a node has    *)
(* published stays with the gossip layer, which may deliver it late, more  *)
(* than once and after a later advertisement.                              *)
(***************************************************************************)

\* The peers of the chain, the announcing node first.
RelayChain == <<"A", "B", "C">>

RelayNodes == { RelayChain[i] : i \in 1..Len(RelayChain) }

\* The liquidity a self-advertisement announces.
Liquidities == {1, 2}

\* RouteAdvertisement::new, lines 74-90, with the advertiser's DID and the
\* sequence number the caller gives.
new_advertisement(did, peer_id, reachable_destinations, sequence_number) ==
    [advertiser_did |-> did, sequence_number |-> sequence_number]
        @@ RouteAdvertisement(peer_id, reachable_destinations)

\* RouteAdvertisement::self_advertisement, lines 94-113: the node itself,
\* at hop count 0 and trust score 1.0.
self_advertisement(did, peer_id, available_liquidity, sequence_number) ==
    new_advertisement(
        did, peer_id,
        << [available_liquidity |-> available_liquidity,
            avg_latency_ms |-> 0,
            destination_did |-> did,
            fee_rate |-> 0,
            hop_count |-> 0,
            supported_currencies |-> {Usd},
            trust_score |-> 10] >>,
        sequence_number)

\* create_readvertisement, lines 214 and 222: the hop count is carried on one
\* more than the entry's.
forwarded_hop_count(e) == (e.hop_count + 1) % Pow2(HopBits)

\* create_readvertisement, lines 215-223: the announcement made of an entry.
readvertised(e) ==
    [available_liquidity |-> e.available_liquidity,
     avg_latency_ms |-> e.avg_latency_ms,
     destination_did |-> e.destination_did,
     fee_rate |-> e.fee_rate,
     hop_count |-> forwarded_hop_count(e),
     supported_currencies |-> e.supported_currencies,
     trust_score |-> e.trust_score]

\* create_readvertisement over the entries in the order all_entries gives
\* them. `e.hop_count + 1` is u32 arithmetic: at u32::MAX it panics under
\* overflow checks and wraps to 0 without them.
create_readvertisement(local_did, local_peer_id, entries, sequence_number, max_hops, checks) ==
    IF checks /\ \E i \in 1..Len(entries) : entries[i].hop_count + 1 > MaxHopCount
    THEN [kind |-> "panic", advert |-> {}]
    ELSE LET within(e) == forwarded_hop_count(e) <= max_hops
         IN  [kind |-> "Ok",
              advert |->
                 { new_advertisement(
                       local_did, local_peer_id,
                       [i \in 1..Len(SelectSeq(entries, within)) |->
                           readvertised(SelectSeq(entries, within)[i])],
                       sequence_number) }]

\* The orders in which all_entries may give the entries of a table.
Orders(table) ==
    { order \in [1..Cardinality(DOMAIN table) -> DOMAIN table] :
          \A i, j \in DOMAIN order : i # j => order[i] # order[j] }

\* The hop limits the nodes of the chain are run with.
RelayHopLimits == {MaxHopLimit, MaxHopCount}

\* The routing table of a node of the chain: empty until it ingests.
table_of(node) == IF node \in DOMAIN rl_drt THEN rl_drt[node] ELSE EmptyMap

\* The sequence number of the last advertisement a node has published, 0
\* before the first.
RECURSIVE last_sequence(_, _)
last_sequence(node, n) ==
    IF n = 0 \/ \E a \in rl_wire :
                    a.advertiser_peer_id = node /\ a.sequence_number = n
    THEN n
    ELSE last_sequence(node, n - 1)

RelayFrame ==
    /\ UNCHANGED <<pm_vars, lg_vars, adapters, ht_vars, nw_vars, rt_vars>>
    /\ UNCHANGED <<dt_vars, vr_vars, cs_vars, ev_vars, tg_vars, ap_vars>>

\* The first node of the chain publishes a self-advertisement under its next
\* sequence number.
SelfAdvertise(available_liquidity) ==
    LET node == RelayChain[1]
        sequence_number == last_sequence(node, MaxSequence) + 1
        advert == self_advertisement(from_parts("key", node), node,
                                     available_liquidity, sequence_number)
    IN  /\ sequence_number <= MaxSequence
        /\ rl_wire' = rl_wire \cup {advert}
        /\ ret' = [op |-> "self_advertisement", kind |-> "Ok", node |-> node,
                   advert |-> advert]
        /\ UNCHANGED <<rl_drt, rl_newest>>
        /\ RelayFrame

\* A node between the ends of the chain publishes a re-advertisement of its
\* table under its next sequence number.
Readvertise(node, max_hops) ==
    LET sequence_number == last_sequence(node, MaxSequence) + 1
    IN  /\ sequence_number <= MaxSequence
        /\ \E order \in Orders(table_of(node)) :
              LET made == create_readvertisement(
                              from_parts("key", node), node,
                              [i \in DOMAIN order |-> table_of(node)[order[i]]],
                              sequence_number, max_hops, overflow_checks)
              IN  /\ rl_wire' = rl_wire \cup made.advert
                  /\ ret' = [op |-> "create_readvertisement",
                             kind |-> made.kind, node |-> node,
                             advert |-> made.advert]
        /\ UNCHANGED <<rl_drt, rl_newest>>
        /\ RelayFrame

\* The newest advertisement a node has ingested, if any.
newest_at(node) ==
    IF node \in DOMAIN rl_newest THEN {rl_newest[node]} ELSE {}

\* A node ingests an advertisement that the node before it has published.
\* An advertisement counts as its newest when none ingested before carries
\* a sequence number as high.
RelayIngest(node, advert, max_hops) ==
    LET result == process_advertisement(table_of(node), advert, max_hops,
                                        overflow_checks)
        newer == result.kind = "Ok"
                   /\ \A a \in newest_at(node) :
                          a.sequence_number < advert.sequence_number
    IN  /\ rl_drt' = IF result.table = table_of(node) THEN rl_drt
                     ELSE MapPut(rl_drt, node, result.table)
        /\ rl_newest' = IF newer THEN MapPut(rl_newest, node, advert)
                        ELSE rl_newest
        /\ ret' = [op |-> "relay_ingest", kind |-> result.kind, node |-> node,
                   advert |-> advert, count |-> result.count,
                   max_hops |-> max_hops]
        /\ UNCHANGED rl_wire
        /\ RelayFrame

NextRelay ==
    \/ \E available_liquidity \in Liquidities :
          SelfAdvertise(available_liquidity)
    \/ \E i \in 2..(Len(RelayChain) - 1), max_hops \in RelayHopLimits :
          Readvertise(RelayChain[i], max_hops)
    \/ \E i \in 2..Len(RelayChain), max_hops \in RelayHopLimits :
          \E advert \in { a \in rl_wire :
                             a.advertiser_peer_id = RelayChain[i - 1] } :
              RelayIngest(RelayChain[i], advert, max_hops)

(***************************************************************************)
(* Trust attestation (veritas-node/node.rs, api.rs): POST on the trust     *)
(* route sends an AttestTrust command to the event loop, which calls the   *)
(* trust graph and replies.                                                *)
(***************************************************************************)

\* The DID of the node, from which its attestations start.
NodeDid == "did:a"

\* send_command_and_await, api.rs lines 216-226: the HTTP status for what
\* comes on the reply channel; "dropped" is the reply sender dropped unused.
send_command_and_await(reply) ==
    CASE reply.kind = "Ok"  -> 200
      [] reply.kind = "Err" -> 400
      [] OTHER              -> 500

\* TrustGraph::add_edge as a function of the edges: what it returns and the
\* edges it leaves.
add_edge(edges, key, weight) ==
    IF ~in_weight_range(weight)
    THEN [kind |-> "InvalidTrustWeight", edges |-> edges]
    ELSE [kind |-> "Ok",
          edges |-> MapPut(edges, key,
                           IF key \in DOMAIN edges
                           THEN TrustEdge(key, weight,
                                          edges[key].interactions + 1)
                           ELSE TrustEdge(key, weight, 1))]

\* handle_api_command, node.rs lines 467-479: `let _ = add_edge(..)`, then
\* the reply Ok(TrustResponse { status: "attested" }); and the answer
\* handle_attest_trust gives the client for it.
AttestTrust(subject_did, score_) ==
    LET key == <<NodeDid, subject_did>>
        added == add_edge(tg_edges, key, score_)
        reply == [kind |-> "Ok", status |-> "attested"]
    IN  /\ tg_calls < MaxGraphCalls
        /\ tg_calls' = tg_calls + 1
        /\ tg_edges' = added.edges
        /\ ret' = [op |-> "attest_trust", kind |-> reply.kind,
                   status |-> reply.status,
                   http |-> send_command_and_await(reply),
                   key |-> key, weight |-> score_, before |-> tg_edges]
        /\ TrustGraphFrame

\* The node attests its trust in a subject; edges are also added and
\* removed by the other users of the graph.
NextAttest ==
    \/ \E weight \in Weights : AttestTrust("did:b", weight)
    \/ NextTrustGraph

\* The program as constructed. PaymentMessage::new starts a payment in
\* Created, and a payment message carries its state over the wire
\* (from_proto), so that transition is exercised from every state in
\* `states`; the build profile, one of `profiles`, is fixed before the
\* program starts; InternalAdapter::new, SettlementManager::new and
\* HtlcManager::new build empty maps.
Init(states, profiles, configs) ==
    /\ pm_state \in states
    /\ pm_last = NoCall
    /\ pm_steps = 0
    /\ overflow_checks \in profiles
    /\ settlements = EmptyMap
    /\ ledger = {}
    /\ balances = EmptyMap
    /\ ret = NoRet
    /\ lg_prev = EmptyMap
    /\ lg_pre = [id \in SettlementIds |-> NoSnap]
    /\ lg_task = [t \in Tasks |-> Idle]
    /\ adapters = {}
    /\ htlcs = EmptyMap
    /\ ht_log = [id \in HtlcIds |-> <<>>]
    /\ ht_task = [t \in Tasks |-> HtlcIdle]
    /\ nw_run = "owned"
    /\ nw_swarm = FALSE
    /\ nw_connected = FALSE
    /\ nw_shutdown_tx = FALSE
    /\ nw_shutdown_sig = FALSE
    /\ nw_command_rx = "node"
    /\ nw_queue = <<>>
    /\ nw_reply = [s \in Submitters |-> "none"]
    /\ nw_sub = [s \in Submitters |-> NoSubmitter]
    /\ drt = EmptyMap
    /\ pf_config \in configs
    /\ dt_task = [t \in Tasks |-> TableIdle]
    /\ vr_trusted = EmptyMap
    /\ vr_task = [t \in Tasks |-> VerifierIdle]
    /\ cs_state = "Draft"
    /\ cs_trace = <<"Draft">>
    /\ ev_loop = "idle"
    /\ ev_buffer = <<>>
    /\ ev_next = 0
    /\ ev_closed = FALSE
    /\ ev_log = <<>>
    /\ ev_peers = {}
    /\ ev_established = 0
    /\ ev_connected = {}
    /\ tg_edges = EmptyMap
    /\ tg_calls = 0
    /\ ap_client = EmptyMap
    /\ ap_queue = <<>>
    /\ ap_loop = LoopSelects
    /\ rl_drt = EmptyMap
    /\ rl_wire = {}
    /\ rl_newest = EmptyMap

SpecPayment == Init(PaymentState, {FALSE}, {DefaultConfig}) /\ [][NextPayment]_vars

SpecLedger == Init({"Created"}, BOOLEAN, {DefaultConfig}) /\ [][NextLedger]_vars

SpecLedgerTasks == Init({"Created"}, BOOLEAN, {DefaultConfig}) /\ [][NextLedgerTasks]_vars

SpecHtlc == Init({"Created"}, {FALSE}, {DefaultConfig}) /\ [][NextHtlc]_vars

SpecHtlcTasks == Init({"Created"}, {FALSE}, {DefaultConfig}) /\ [][NextHtlcTasks]_vars

\* The manager is asked for unit amounts only, which overflow in no build.
SpecSettlement == Init({"Created"}, {FALSE}, {DefaultConfig}) /\ [][NextSettlement]_vars

\* The network node, under every scheduling.
SpecNetwork == Init({"Created"}, {FALSE}, {DefaultConfig}) /\ [][NextNetwork]_vars

\* The routing table and a path finder of any configuration.
SpecRouting == Init({"Created"}, {FALSE}, PathFinderConfigs) /\ [][NextRouting]_vars

\* The network node, under the scheduling the runtime gives.
SpecNetworkLive == SpecNetwork /\ FairNetwork

\* Tasks calling the routing table concurrently, in either build.
SpecTableTasks ==
    Init({"Created"}, BOOLEAN, {DefaultConfig}) /\ [][NextTableTasks]_vars

\* Advertisements ingested into the routing table, in either build.
SpecAdvertisement ==
    Init({"Created"}, BOOLEAN, {DefaultConfig}) /\ [][NextAdvertisement]_vars

\* Tasks calling the credential verifier concurrently.
SpecVerifier ==
    Init({"Created"}, {FALSE}, {DefaultConfig}) /\ [][NextVerifier]_vars

\* A credential driven from Draft by any events.
SpecCredential ==
    Init({"Created"}, {FALSE}, {DefaultConfig}) /\ [][NextCredential]_vars

\* The full node's main event loop and the network task that feeds it.
SpecEventLoop ==
    Init({"Created"}, {FALSE}, {DefaultConfig}) /\ [][NextEventLoop]_vars

\* Calls on the trust graph, in any order.
SpecTrustGraph ==
    Init({"Created"}, {FALSE}, {DefaultConfig}) /\ [][NextTrustGraph]_vars

\* Clients of the admin API sending payments through the main loop.
SpecApi ==
    Init({"Created"}, {FALSE}, {DefaultConfig}) /\ [][NextApi]_vars

\* The routing table of the wider overlay and a path finder of any
\* configuration.
SpecRoutingWide ==
    Init({"Created"}, {FALSE}, PathFinderConfigs) /\ [][NextRoutingWide]_vars

\* The connections of the network task and the peers of the full node.
SpecPeers ==
    Init({"Created"}, {FALSE}, {DefaultConfig}) /\ [][NextPeers]_vars

\* Advertisements relayed along the chain, in either build.
SpecRelay ==
    Init({"Created"}, BOOLEAN, {DefaultConfig}) /\ [][NextRelay]_vars

\* A network node that its owner starts, runs, stops and starts again.
SpecRestart ==
    Init({"Created"}, {FALSE}, {DefaultConfig}) /\ [][NextRestart]_vars

\* Trust attested through the API of the identity node.
SpecAttest ==
    Init({"Created"}, {FALSE}, {DefaultConfig}) /\ [][NextAttest]_vars

(***************************************************************************)
(* Claims on the Payment-Message state machine                             *)
(***************************************************************************)

\* The transition table of the specification (section 4.1), as
\* <<from, event, to>> rows; every pair not listed is to be rejected.
TransitionTable ==
    { <<"Created",  "RouteFound",          "Routed">>,
      <<"Created",  "Expired",             "Expired">>,
      <<"Created",  "Cancelled",           "Cancelled">>,
      <<"Routed",   "Accepted",            "Accepted">>,
      <<"Routed",   "SettlementFailed",    "Failed">>,
      <<"Routed",   "Expired",             "Expired">>,
      <<"Routed",   "Cancelled",           "Cancelled">>,
      <<"Accepted", "SettlementStarted",   "Settling">>,
      <<"Accepted", "SettlementFailed",    "Failed">>,
      <<"Accepted", "Expired",             "Expired">>,
      <<"Accepted", "Cancelled",           "Cancelled">>,
      <<"Settling", "SettlementConfirmed", "Settled">>,
      <<"Settling", "SettlementFailed",    "Failed">>,
      <<"Failed",   "RetryRoute",          "Routed">> }

TerminalStates == {"Settled", "Expired", "Cancelled"}

IsInvalidStateTransition(r) == ~r.ok /\ r.err = "InvalidStateTransition"

\* C1: for every (state, event) pair, transition returns the target the
\* table lists for the pair, or InvalidStateTransition when the table lists
\* none; in Settled, Expired and Cancelled every event is rejected and the
\* payment keeps its state.
C1_TransitionClosure ==
    pm_last.called =>
        LET rows == { row \in TransitionTable :
                        row[1] = pm_last.from /\ row[2] = pm_last.event }
        IN  /\ rows # {} =>
                  \A row \in rows :
                      /\ pm_last.result = Ok(row[3])
                      /\ pm_state = row[3]
            /\ rows = {} =>
                  /\ IsInvalidStateTransition(pm_last.result)
                  /\ pm_state = pm_last.from
            /\ pm_last.from \in TerminalStates =>
                  /\ IsInvalidStateTransition(pm_last.result)
                  /\ pm_state = pm_last.from

\* C1 witness: a payment reached a terminal state by a transition and was
\* then sent a further event.
C1_Witness ==
    /\ pm_last.called
    /\ pm_last.from \in TerminalStates
    /\ pm_steps >= 2

\* C2: in Settling the Cancelled and Expired events are rejected with
\* InvalidStateTransition, and one step from Settling leads only to Settled
\* or Failed (or leaves the payment in Settling when the event is rejected).
C2_SettlingOnlyResolves ==
    (pm_last.called /\ pm_last.from = "Settling") =>
        /\ pm_last.event \in {"Cancelled", "Expired"} =>
              /\ IsInvalidStateTransition(pm_last.result)
              /\ pm_state = "Settling"
        /\ pm_last.result.ok => pm_last.result.state \in {"Settled", "Failed"}
        /\ pm_state \in {"Settling", "Settled", "Failed"}
        /\ pm_state = "Settled" => pm_last.event = "SettlementConfirmed"
        /\ pm_state = "Failed" => pm_last.event = "SettlementFailed"

\* C2 witness: a payment in Settling was sent the Cancelled event.
C2_Witness ==
    /\ pm_last.called
    /\ pm_last.from = "Settling"
    /\ pm_last.event = "Cancelled"

(***************************************************************************)
(* Claims on the internal ledger adapter                                   *)
(***************************************************************************)

RECURSIVE SumBalances(_, _, _)
SumBalances(bal, dids, currency) ==
    IF dids = {} THEN 0
    ELSE LET did == CHOOSE d \in dids : TRUE
         IN  BalanceOf(bal, did, currency)
               + SumBalances(bal, dids \ {did}, currency)

RECURSIVE SumDeltas(_)
SumDeltas(entries) ==
    IF entries = {} THEN 0
    ELSE LET e == CHOOSE x \in entries : TRUE
         IN  e.delta + SumDeltas(entries \ {e})

EntriesOf(did, currency) ==
    { e \in ledger : e.did = did /\ e.currency = currency }

\* C3: after any sequence of initiate, confirm and rollback calls the
\* balances of all DIDs in one currency sum to 0. The sum is taken as the
\* program would take it, in i128 arithmetic, so that a wrapped balance
\* alone does not count against the claim.
C3_BalancesSumToZero ==
    \A currency \in Currencies :
        Wrap(SumBalances(balances, Dids, currency)) = 0

\* What settlement `rec`, once applied, adds to the balance of a
\* (DID, currency) pair: its value taken from the sender and given to the
\* receiver.
Contribution(rec, did, currency) ==
    LET value == AsSigned(rec.amount.value)
        hit == currency = rec.amount.currency
    IN  (IF hit /\ did = rec.receiver_did THEN value ELSE 0)
          - (IF hit /\ did = rec.sender_did THEN value ELSE 0)

RECURSIVE SumContributions(_, _, _)
SumContributions(ids, did, currency) ==
    IF ids = {} THEN 0
    ELSE LET id == CHOOSE i \in ids : TRUE
         IN  Contribution(settlements[id], did, currency)
               + SumContributions(ids \ {id}, did, currency)

\* A confirm or rollback call on settlement `id` is under way.
InCall(id) == \E t \in Tasks : lg_task[t].pc # "idle" /\ lg_task[t].id = id

\* C4: at every moment, what a reader of the balances can see is the sum of
\* whole debit/credit pairs: there is a set of settlements, holding every
\* Confirmed settlement and no other settlement that is not inside a call,
\* such that every balance is the sum of the pairs of that set. A debit
\* without its credit is the pair of no settlement.
C4_PairAtomicOrAbsent ==
    \E applied \in SUBSET (DOMAIN settlements) :
        /\ \A id \in DOMAIN settlements :
              ~InCall(id) => (id \in applied <=> settlements[id].status = "Confirmed")
        /\ \A did \in Dids, currency \in Currencies :
              get_balance(did, currency)
                = Wrap(SumContributions(applied, did, currency))

\* C5: after any sequence of initiate, confirm and rollback calls the
\* balance of every (DID, currency) pair is the sum, in i128 arithmetic, of
\* the deltas of the ledger entries recorded for that DID and currency.
C5_BalanceIsSumOfDeltas ==
    \A did \in Dids, currency \in Currencies :
        get_balance(did, currency) = Wrap(SumDeltas(EntriesOf(did, currency)))

RolledBackOk ==
    /\ ret.op = "rollback"
    /\ ret.kind = "Ok"

\* The balances a reversal of `rec` leaves when it starts from `bal`:
\* the sender's raised and the receiver's lowered by the settled value.
Reversed(bal, rec, did, currency) ==
    LET value == AsSigned(rec.amount.value)
        hit == currency = rec.amount.currency
    IN  Wrap(BalanceOf(bal, did, currency)
               + (IF hit /\ did = rec.sender_did THEN value ELSE 0)
               - (IF hit /\ did = rec.receiver_did THEN value ELSE 0))

Succeeded(id, op) ==
    { i \in 1..Len(ht_log[id]) :
        ht_log[id][i].op = op /\ ht_log[id][i].kind = "Ok" }

\* C6: over any sequence of claim, refund and check_expiry calls on one
\* HTLC at most one of claim and refund ever succeeds, and at most once: a
\* Claimed HTLC is not refunded and a Refunded HTLC is not claimed.
C6_ClaimRefundExclusive ==
    \A id \in HtlcIds :
        /\ Cardinality(Succeeded(id, "claim") \cup Succeeded(id, "refund")) <= 1
        /\ Succeeded(id, "claim") # {} => htlcs[id].status = "Claimed"
        /\ Succeeded(id, "refund") # {} => htlcs[id].status = "Refunded"

\* C6 witness: an HTLC was claimed and a refund was then attempted on it at
\* or after its time lock.
C6_Witness ==
    \E id \in DOMAIN htlcs :
        \E i \in Succeeded(id, "claim") :
            \E j \in (i + 1)..Len(ht_log[id]) :
                /\ ht_log[id][j].op = "refund"
                /\ ht_log[id][j].kind = "InvalidStateTransition"

\* C7: a claim on an Active HTLC returns Expired and leaves the HTLC Expired
\* when the clock is at or past the time lock; otherwise returns
\* PreimageMismatch and leaves it Active when the digest of the preimage is
\* not the hash lock; otherwise leaves it Claimed. A claim on an HTLC that
\* is not Active fails and leaves the status as it was.
C7_ClaimOnActive ==
    (ret.op = "claim" /\ ret.kind # "NotFound") =>
        LET htlc == htlcs[ret.id]
        IN  IF ret.from # "Active"
            THEN ret.kind = "InvalidStateTransition" /\ htlc.status = ret.from
            ELSE IF ret.now_ms >= htlc.time_lock
            THEN ret.kind = "Expired" /\ htlc.status = "Expired"
            ELSE IF blake3_hash(ret.preimage) # htlc.hash_lock
            THEN ret.kind = "PreimageMismatch" /\ htlc.status = "Active"
            ELSE ret.kind = "Ok" /\ htlc.status = "Claimed"

\* C7 witness: an Active HTLC was claimed with its preimage at the very
\* millisecond of its time lock.
C7_Witness ==
    /\ ret.op = "claim"
    /\ ret.kind = "Expired"
    /\ ret.from = "Active"
    /\ ret.now_ms = htlcs[ret.id].time_lock
    /\ blake3_hash(ret.preimage) = htlcs[ret.id].hash_lock

\* What a call does when it runs alone on a stored HTLC.
Alone(htlc, call) ==
    CASE call.op = "claim" -> claim(htlc, call.preimage, call.now_ms)
      [] call.op = "refund" -> refund(htlc, call.now_ms)
      [] call.op = "check_expiry" -> expire(htlc, call.now_ms)

\* The calls `todo` of `log`, run one after the other in some order from
\* `htlc`, return what the log says and end in status `final`.
RECURSIVE HasSerialOrder(_, _, _, _)
HasSerialOrder(htlc, log, todo, final) ==
    IF todo = {} THEN htlc.status = final
    ELSE \E i \in todo :
            LET done == Alone(htlc, log[i])
            IN  /\ done.kind = log[i].kind
                /\ HasSerialOrder(done.htlc, log, todo \ {i}, final)

\* C9: the calls that tasks completed on one HTLC, however they overlapped,
\* have the results and leave the status of those calls run one after the
\* other in some order from the HTLC as created; a claim and a refund of one
\* HTLC never both succeed.
C9_SerializedPerHtlc ==
    \A id \in DOMAIN htlcs :
        /\ HasSerialOrder(Htlc(id, htlcs[id].hash_lock, htlcs[id].time_lock),
                          ht_log[id], 1..Len(ht_log[id]), htlcs[id].status)
        /\ Succeeded(id, "claim") = {} \/ Succeeded(id, "refund") = {}

\* C9 witness: a task is inside a claim of an HTLC that a check_expiry of
\* another task, under way, is yet to visit.
C9_Witness ==
    \E t \in Tasks, u \in Tasks :
        /\ ht_task[t].pc = "claim"
        /\ ht_task[u].pc = "check_expiry"
        /\ ht_task[t].id \in ht_task[u].todo

(***************************************************************************)
(* Claims on the settlement and HTLC errors                                *)
(***************************************************************************)

SettlementError ==
    {"NotFound", "AdapterNotFound", "InvalidStateTransition", "Expired",
     "PreimageMismatch", "HtlcNotExpired"}

\* C8, as stated: a call that returns a settlement error leaves the
\* settlement records, the ledger entries, the balances and the HTLCs as
\* they were before it.
C8_FailedCallCommitsNothing ==
    [][ret'.kind \in SettlementError =>
          UNCHANGED <<settlements, ledger, balances, htlcs>>]_vars

\* C8, amended: a call that returns a settlement error leaves the
\* settlement records, the ledger entries, the balances and the HTLCs as
\* they were before it, but for a claim that returns Expired: it leaves its
\* HTLC, Active before the call, in status Expired, and changes nothing else.
C8_FailedCallCommitsOnlyExpiry ==
    [][ret'.kind \in SettlementError =>
          /\ UNCHANGED <<settlements, ledger, balances>>
          /\ IF ret'.op = "claim" /\ ret'.kind = "Expired"
             THEN /\ htlcs[ret'.id].status = "Active"
                  /\ htlcs' = [htlcs EXCEPT ![ret'.id].status = "Expired"]
             ELSE UNCHANGED htlcs]_vars

\* C8 witness: a claim with a wrong preimage failed on an Active HTLC while
\* a settlement was Confirmed and its balances posted.
C8_Witness ==
    /\ ret.op = "claim"
    /\ ret.kind = "PreimageMismatch"
    /\ \E id \in DOMAIN settlements : settlements[id].status = "Confirmed"
    /\ get_balance("did:gppn:key:bob", CHOOSE c \in Currencies : TRUE) = 1

(***************************************************************************)
(* Claims on the guards of confirm and rollback                            *)
(***************************************************************************)

\* Whether a step took settlement `id` from one of the statuses `from` to
\* the status `to`.
Moved(id, from, to) ==
    /\ id \in DOMAIN settlements
    /\ settlements[id].status \in from
    /\ settlements'[id].status = to

\* C11: confirm on a settlement that is not Initiated or Pending, and
\* rollback on one that is not Initiated, Pending or Confirmed, return
\* InvalidStateTransition and leave records, ledger entries and balances as
\* they were; a settlement never returns to a status it has left for
\* Confirmed or RolledBack; and the balances and the ledger entries change
\* only in the one confirm that takes a settlement to Confirmed and the one
\* rollback that takes it from Confirmed to RolledBack, so that its pair is
\* posted at most once and reversed at most once.
C11_PostedOnceReversedOnce ==
    [][/\ \A id \in DOMAIN settlements :
            /\ ( /\ ret'.op = "confirm" /\ ret'.id = id
                 /\ settlements[id].status \notin {"Initiated", "Pending"} )
               => /\ ret'.kind = "InvalidStateTransition"
                  /\ UNCHANGED lg_store
            /\ ( /\ ret'.op = "rollback" /\ ret'.id = id
                 /\ settlements[id].status
                      \notin {"Initiated", "Pending", "Confirmed"} )
               => /\ ret'.kind = "InvalidStateTransition"
                  /\ UNCHANGED lg_store
            /\ settlements[id].status = "Confirmed"
               => settlements'[id].status \in {"Confirmed", "RolledBack"}
            /\ settlements[id].status = "RolledBack"
               => settlements'[id].status = "RolledBack"
       /\ (balances' # balances \/ ledger' # ledger)
          => \/ /\ ret'.op = "confirm"
                /\ Moved(ret'.id, {"Initiated", "Pending"}, "Confirmed")
             \/ /\ ret'.op = "rollback"
                /\ Moved(ret'.id, {"Confirmed"}, "RolledBack")]_vars

(***************************************************************************)
(* Claims on refund and on the life of an HTLC                             *)
(***************************************************************************)

\* C12: a refund succeeds, and leaves the HTLC Refunded, exactly when the
\* HTLC was Active or Expired and the clock is at or past the time lock;
\* before the time lock it returns HtlcNotExpired and leaves the status as
\* it was; on a Claimed or Refunded HTLC it fails with
\* InvalidStateTransition and leaves the status as it was.
C12_RefundWhenDue ==
    (ret.op = "refund" /\ ret.kind # "NotFound") =>
        LET htlc == htlcs[ret.id]
            due == /\ ret.from \in {"Active", "Expired"}
                   /\ ret.now_ms >= htlc.time_lock
        IN  /\ ret.kind = "Ok" <=> due
            /\ ret.kind = "Ok" => htlc.status = "Refunded"
            /\ ret.kind # "Ok" => htlc.status = ret.from
            /\ ( /\ ret.from \in {"Active", "Expired"}
                 /\ ret.now_ms < htlc.time_lock )
               => ret.kind = "HtlcNotExpired"
            /\ ret.from \in {"Claimed", "Refunded"}
               => ret.kind = "InvalidStateTransition"

\* C12 witness: an Expired HTLC was refunded at the very millisecond of its
\* time lock.
C12_Witness ==
    /\ ret.op = "refund"
    /\ ret.kind = "Ok"
    /\ ret.from = "Expired"
    /\ ret.now_ms = htlcs[ret.id].time_lock
    /\ htlcs[ret.id].status = "Refunded"

\* C13, as stated: every change of an HTLC's status starts from Active, and
\* an HTLC that is Claimed, Refunded or Expired keeps its status.
C13_ChangesStartFromActive ==
    [][\A id \in DOMAIN htlcs :
          htlcs'[id].status # htlcs[id].status
             => htlcs[id].status = "Active"]_vars

\* C13, amended: an HTLC leaves Active for Claimed, Refunded or Expired, and
\* leaves Expired only for Refunded, which only a refund at or past the time
\* lock does; an HTLC that is Claimed or Refunded keeps its status.
C13_StatusLifecycle ==
    [][\A id \in DOMAIN htlcs :
          htlcs'[id].status # htlcs[id].status
             => \/ /\ htlcs[id].status = "Active"
                   /\ htlcs'[id].status \in {"Claimed", "Refunded", "Expired"}
                \/ /\ htlcs[id].status = "Expired"
                   /\ htlcs'[id].status = "Refunded"
                   /\ ret'.op = "refund" /\ ret'.id = id /\ ret'.kind = "Ok"
                   /\ ret'.now_ms >= htlcs[id].time_lock]_vars

\* C13 witness: an HTLC that had been marked Expired was refunded after its
\* time lock.
C13_Witness ==
    /\ ret.op = "refund"
    /\ ret.kind = "Ok"
    /\ ret.from = "Expired"
    /\ ret.now_ms > htlcs[ret.id].time_lock

(***************************************************************************)
(* Claims on the network event loop                                        *)
(***************************************************************************)

\* Whether submitter `s` has a command out: sent, or being sent, and its
\* reply channel not yet resolved for it.
InFlight(s) == nw_sub[s].pc \in {"sending", "waiting"}

\* C14: every command submitted through the command channel gets exactly
\* one outcome on its reply channel: its submitter comes back from the wait
\* with the loop's reply, the loop having handled the command just once, or
\* with the error of a reply channel closed by the teardown of the task, the
\* loop never having handled the command; and no submitter waits forever.
C14_EveryCommandGetsOneOutcome ==
    /\ [](\A s \in Submitters :
            /\ nw_sub[s].served <= 1
            /\ InFlight(s) => nw_sub[s].outcome = "none"
            /\ (nw_sub[s].pc = "idle" /\ nw_sub[s].sent > 0)
               => \/ /\ nw_sub[s].outcome \in CommandResults
                     /\ nw_sub[s].served = 1
                  \/ /\ nw_sub[s].outcome = "RecvError"
                     /\ nw_sub[s].served = 0
                     /\ ~ReceiverAlive)
    /\ \A s \in Submitters : InFlight(s) ~> ~InFlight(s)

\* C14 witness: one submitter has had the loop's reply, and another the
\* error of a command that was still queued when the task was torn down.
C14_Witness ==
    \E s \in Submitters, t \in Submitters :
        /\ nw_sub[s].pc = "idle" /\ nw_sub[s].outcome = "Ok"
        /\ nw_sub[t].pc = "idle" /\ nw_sub[t].outcome = "RecvError"
        /\ nw_run = "aborted"

\* Whether the loop has been told to stop: stop's signal is in the shutdown
\* channel, or the holders of the command senders have all dropped them.
ToldToStop ==
    \/ nw_shutdown_sig
    \/ \A s \in Submitters : ~nw_sub[s].holds

Routed == ret.op = "find_routes" /\ ret.kind = "Ok"

\* The routes find_routes has just returned.
Routes == { ret.routes[i] : i \in 1..Len(ret.routes) }

\* The nodes a route visits, in order: the source, then the destination of
\* each hop.
Visited(route) ==
    <<ret.q.source_uri>>
      \o [i \in 1..Len(route.hops) |-> route.hops[i].destination_did]

\* C16: no route returned by find_routes visits a node twice, and none has
\* the source node anywhere but at its start.
C16_NoNodeTwice ==
    Routed =>
        \A route \in Routes :
            \A i \in 1..Len(Visited(route)), j \in 1..Len(Visited(route)) :
                i # j => Visited(route)[i] # Visited(route)[j]

\* C16 witness: a route of two hops was returned from a table that holds an
\* entry leading back to the source.
C16_Witness ==
    /\ Routed
    /\ \E route \in Routes : Len(route.hops) = 2
    /\ \E key \in DOMAIN drt : drt[key].destination_did = ret.q.source_uri

\* C17: every hop of every route returned by find_routes supports the
\* currency asked for and has at least the amount asked for in liquidity.
C17_HopsFitTheRequest ==
    Routed =>
        \A route \in Routes : \A i \in 1..Len(route.hops) :
            /\ ret.q.currency \in route.hops[i].supported_currencies
            /\ route.hops[i].available_liquidity >= ret.q.amount

\* C17 witness: a route was returned from a table that also holds an entry
\* in another currency and an entry with too little liquidity.
C17_Witness ==
    /\ Routed
    /\ \E key \in DOMAIN drt : ret.q.currency \notin drt[key].supported_currencies
    /\ \E key \in DOMAIN drt : drt[key].available_liquidity < ret.q.amount

\* C18: find_routes returns at most max_routes routes, each before every
\* route of a lower score and none before a route of a higher one; with an
\* empty table it fails with EmptyRoutingTable, and with no route found to
\* the destination it fails with NoRouteFound.
C18_AtMostKBestFirst ==
    ret.op = "find_routes" =>
        /\ ret.kind \in {"Ok", "EmptyRoutingTable", "NoRouteFound"}
        /\ Len(ret.routes) <= ret.q.max_routes
        /\ \A i \in 1..Len(ret.routes), j \in 1..Len(ret.routes) :
              i < j => AtLeast(score(ret.routes[i], pf_config.weights),
                               score(ret.routes[j], pf_config.weights))
        /\ ret.kind = "EmptyRoutingTable" <=> drt = EmptyMap
        /\ ret.kind = "NoRouteFound" <=> (drt # EmptyMap /\ ret.routes = <<>>)
        /\ ret.kind = "Ok" => ret.routes # <<>>

\* C18 witness: two routes of different scores were returned, the search
\* having found the better one last.
C18_Witness ==
    /\ Routed
    /\ Len(ret.routes) = 2
    /\ ~AtLeast(score(ret.routes[2], pf_config.weights),
                score(ret.routes[1], pf_config.weights))
    /\ Len(ret.routes[1].hops) = 2

\* C19: every route returned by find_routes has at most max_hops hops, and
\* the least trust score of its hops is at least min_trust_score.
C19_WithinHopsAndTrust ==
    Routed =>
        \A route \in Routes :
            /\ Len(route.hops) <= pf_config.max_hops
            /\ \A i \in 1..Len(route.hops) :
                  route.hops[i].trust_score >= pf_config.min_trust_score

\* C19 witness: a route of as many hops as the limit allows was returned
\* under a trust threshold that an entry of the table does not meet.
C19_Witness ==
    /\ Routed
    /\ pf_config.min_trust_score > 0
    /\ \E route \in Routes : Len(route.hops) = pf_config.max_hops
    /\ \E key \in DOMAIN drt : drt[key].trust_score < pf_config.min_trust_score

\* C20: find_routes leaves the routing table as it was, whether it returns
\* routes or an error.
C20_TableUnchanged ==
    [][ret'.op = "find_routes" => drt' = drt]_vars

\* C20 witness: find_routes returned routes from a table of several
\* entries.
C20_Witness ==
    /\ Routed
    /\ Cardinality(DOMAIN drt) > 1

(***************************************************************************)
(* Claims on route advertisements and on the routing table's entries       *)
(***************************************************************************)

\* Whether process_advertisement has just been called.
Ingested == ret.op = "process_advertisement"

\* The announcements of the advertisement just ingested that are within the
\* hop limit: those with hop_count + 1 <= max_hops.
Due ==
    { i \in 1..Len(ret.advert.reachable_destinations) :
          ret.advert.reachable_destinations[i].hop_count + 1 <= ret.max_hops }

\* The key under which the i-th announcement is installed.
KeyOf(i) ==
    <<ret.advert.reachable_destinations[i].destination_did,
      ret.advert.advertiser_peer_id>>

\* C21: ingest of an advertisement that passes validation installs, for
\* each announced destination with hop_count + 1 <= max_hops, an entry keyed
\* by the destination and the advertiser with hop count hop_count + 1 (the
\* last such announcement of a destination deciding), leaves the keys of
\* the other destinations as they were, and returns the number of
\* announcements it installed.
C21_InstallsWithinHopLimit ==
    (Ingested /\ validate_advertisement(ret.advert) = "Ok") =>
        /\ ret.kind = "Ok"
        /\ ret.count = Cardinality(Due)
        /\ \A i \in Due :
              /\ KeyOf(i) \in DOMAIN drt
              /\ (\A j \in Due : j > i => KeyOf(j) # KeyOf(i)) =>
                    drt[KeyOf(i)].hop_count =
                        ret.advert.reachable_destinations[i].hop_count + 1
        /\ \A key \in (DOMAIN drt \cup DOMAIN ret.before)
                          \ { KeyOf(i) : i \in Due } :
              /\ key \in DOMAIN drt
              /\ key \in DOMAIN ret.before
              /\ drt[key] = ret.before[key]

\* Whether a fee rate in hundredths, or a trust score in tenths, lies below
\* 0 or above 1.
OutOfRange(x, one) == x # NaN /\ (x < 0 \/ x > one)

\* The announcements of the advertisement just ingested that have a fee
\* rate or a trust score below 0 or above 1.
Invalid ==
    { i \in 1..Len(ret.advert.reachable_destinations) :
          \/ OutOfRange(ret.advert.reachable_destinations[i].fee_rate, 100)
          \/ OutOfRange(ret.advert.reachable_destinations[i].trust_score, 10) }

\* C22 as claimed: when a destination announcement of an advertisement is
\* invalid, only it is left out, and the valid destinations of the same
\* advertisement that are within the hop limit are installed.
C22_OnlyTheInvalidLeftOut ==
    (Ingested /\ ret.advert.advertiser_peer_id # "" /\ Invalid # {}) =>
        \A i \in Due \ Invalid :
            /\ KeyOf(i) \in DOMAIN drt
            /\ drt[KeyOf(i)].last_updated = ret.advert.created_at
            /\ drt[KeyOf(i)].next_hop_peer_id = ret.advert.advertiser_peer_id

\* C22 as amended: when a destination announcement of an advertisement has
\* a fee rate or a trust score below 0 or above 1, the whole advertisement
\* is rejected with InvalidRouteEntry and the table is left as it was.
C22_InvalidRejectsWhole ==
    (Ingested /\ Invalid # {}) =>
        /\ ret.kind = "InvalidRouteEntry"
        /\ ret.count = 0
        /\ drt = ret.before

\* C22 witness: an advertisement with an invalid destination and a valid
\* one within the hop limit was ingested into a table that holds entries.
C22_Witness ==
    /\ Ingested
    /\ ret.advert.advertiser_peer_id # ""
    /\ Invalid # {}
    /\ Due \ Invalid # {}
    /\ ret.before # EmptyMap

\* The route-entry invariants of an entry: fee rate and trust score in
\* [0, 1], some currency supported, a next hop named.
WellFormed(entry) ==
    /\ entry.fee_rate # NaN /\ entry.fee_rate >= 0 /\ entry.fee_rate <= 100
    /\ entry.trust_score # NaN
    /\ entry.trust_score >= 0 /\ entry.trust_score <= 10
    /\ entry.supported_currencies # {}
    /\ entry.next_hop_peer_id # ""

\* C23: every entry stored in the routing table, inserted directly or
\* installed from an advertisement, has a fee rate and a trust score in
\* [0, 1], a currency and a next hop.
C23_StoredEntriesWellFormed ==
    \A key \in DOMAIN drt : WellFormed(drt[key])

(***************************************************************************)
(* Claims on the routing table under concurrent callers                    *)
(***************************************************************************)

\* C24: remove_expired returns the number of entries it removed, also when
\* other tasks insert into the table or remove from it during the sweep.
C24_SweepCountsWhatItRemoved ==
    [][(ret' # ret /\ ret'.op = "remove_expired") =>
           /\ ret'.kind = "Ok"
           /\ ret'.count = ret'.removed]_vars

\* The task that writes an entry back in this step, if any.
Stores(t) == dt_task[t].pc = "store" /\ dt_task'[t].pc = "drop"

\* C25: update is an atomic read-modify-write of the entry under its key:
\* what it writes back is one step on from what the entry holds at that
\* moment, whatever other tasks did meanwhile, and nothing else in the table
\* changes; and update returns true exactly when the key is present.
C25_UpdateIsAtomic ==
    [][/\ \A t \in Tasks :
             Stores(t) =>
                 /\ dt_task[t].key \in DOMAIN drt
                 /\ drt' = [drt EXCEPT
                               ![dt_task[t].key].available_liquidity =
                                   drt[dt_task[t].key].available_liquidity + 1]
       /\ (ret' # ret /\ ret'.op = "update") =>
              (ret'.found <=> ret'.key \in DOMAIN drt')]_vars

\* C25 witness: both tasks have updated the entry of one key, one of them
\* twice, and the entry shows the three updates.
C25_Witness ==
    /\ ret.op = "update"
    /\ ret.found
    /\ \A t \in Tasks : dt_task[t].calls >= 1
    /\ ret.key \in DOMAIN drt
    /\ drt[ret.key].available_liquidity = 5

(***************************************************************************)
(* Claims on the credential verifier                                       *)
(***************************************************************************)

\* Whether verify_credential has just returned a result.
Verified == ret.op = "verify_credential" /\ ret.kind = "Ok"

FourChecks ==
    <<"signature_present", "issuer_trusted", "signature_valid", "not_expired">>

\* The names of the checks a result records, in order.
CheckNames(checks) == [i \in 1..Len(checks) |-> checks[i].name]

AllPass(checks) == \A i \in 1..Len(checks) : checks[i].passed

\* C26, as stated: every result of verify_credential records the four
\* checks signature_present, issuer_trusted, signature_valid and not_expired,
\* and it is valid if and only if all four pass.
C26_FourChecksInEveryResult ==
    Verified =>
        /\ CheckNames(ret.checks) = FourChecks
        /\ ret.valid <=> AllPass(ret.checks)

\* C26, amended: the result for a signed credential records the four checks,
\* the result for an unsigned one records signature_present alone, failed;
\* a result is valid if and only if it records the four checks and all pass.
C26_FourChecksWhenSigned ==
    Verified =>
        /\ is_signed(ret.credential) => CheckNames(ret.checks) = FourChecks
        /\ ~is_signed(ret.credential) =>
              ret.checks = <<VerificationCheck("signature_present", FALSE)>>
        /\ ret.valid <=>
              (CheckNames(ret.checks) = FourChecks /\ AllPass(ret.checks))

\* C26: an unsigned credential has been verified, by a verifier that trusts
\* its issuer.
C26_Witness ==
    /\ Verified
    /\ ~is_signed(ret.credential)
    /\ ret.credential.issuer \in DOMAIN vr_trusted

\* C27, as stated: whatever other tasks add to or remove from the trusted
\* issuers meanwhile, a call of verify_credential ends in a result, never
\* in an error or a panic.
C27_VerifyNeverThrows ==
    ret.op = "verify_credential" => ret.kind = "Ok"

(***************************************************************************)
(* Claims on the credential state machine                                  *)
(***************************************************************************)

\* Whether an event has just been applied to the credential and accepted.
Accepted == ret.op = "credential_transition" /\ ret.result.ok

\* The transitions of the lifecycle Draft -> Issued -> Active ->
\* {Suspended <-> Active} -> {Revoked, Expired}.
Lifecycle ==
    {<<"Draft", "Issued">>, <<"Issued", "Active">>,
     <<"Active", "Suspended">>, <<"Suspended", "Active">>,
     <<"Active", "Revoked">>, <<"Active", "Expired">>,
     <<"Suspended", "Revoked">>, <<"Suspended", "Expired">>}

\* Whether the credential has been in state s.
HasBeen(s) == \E i \in 1..Len(cs_trace) : cs_trace[i] = s

\* A credential in Revoked or Expired takes no event.
TerminalTakesNothing ==
    (ret.op = "credential_transition" /\ credential_is_final(ret.from))
        => ~ret.result.ok /\ cs_state = ret.from

\* C28, as stated: every accepted transition is one of the lifecycle, so a
\* credential comes to Revoked or Expired only from Active or Suspended,
\* having been Active, and in Revoked or Expired it takes no further event.
C28_TerminalOnlyAfterActive ==
    /\ Accepted => <<ret.from, ret.result.state>> \in Lifecycle
    /\ credential_is_final(cs_state) => HasBeen("Active")
    /\ TerminalTakesNothing

\* C28, amended: every accepted transition is one of the lifecycle or the
\* revocation of an Issued credential; a credential comes to Expired only
\* from Active or Suspended, having been Active, and to Revoked only from
\* Issued, Active or Suspended; in Revoked or Expired it takes no event.
C28_RevokedAlsoFromIssued ==
    /\ Accepted =>
          <<ret.from, ret.result.state>>
              \in Lifecycle \cup {<<"Issued", "Revoked">>}
    /\ cs_state = "Expired" => HasBeen("Active")
    /\ cs_state = "Revoked" => HasBeen("Issued")
    /\ TerminalTakesNothing

\* C28: an Issued credential that was never Active has been revoked, and
\* has then been refused an event.
C28_Witness ==
    /\ cs_state = "Revoked"
    /\ ~HasBeen("Active")
    /\ ret.op = "credential_transition"
    /\ ret.from = "Revoked"
    /\ ~ret.result.ok

(***************************************************************************)
(* Claims on the main event loop                                           *)
(***************************************************************************)

\* Whether the loop's last receive was answered with Lagged.
Lagged == Len(ev_log) > 0 /\ ev_log[Len(ev_log)].kind = "Lagged"

\* A step in which the loop gets an answer from event_rx.recv().
Received == ret'.op = "recv" /\ ret' # ret

\* C29: when the event receiver lags, the loop logs the number of events
\* missed and keeps running with its receiver, placed at the oldest event
\* the channel still holds; and the receive after a lag does not end the
\* loop, it is answered with an event or with another lag.
C29_LagIsLoggedLoopGoesOn ==
    [][/\ Received /\ ret'.kind = "Lagged" =>
            /\ ev_loop' = "running"
            /\ ev_log' = Append(ev_log,
                  [kind |-> "Lagged", missed |-> Overwritten - ev_next])
            /\ Overwritten - ev_next > 0
            /\ ev_next' = Len(ev_buffer) - EventChannelCapacity
       /\ Received /\ Lagged =>
            /\ ret'.kind \in {"Ok", "Lagged"}
            /\ ev_loop' = "running"
       /\ Lagged /\ ~Received => ev_loop' = "running"]_vars

\* C29: the loop has logged a lag and, after it, an event it received.
C29_Witness ==
    \E i \in 1..Len(ev_log) :
        /\ ev_log[i].kind = "Lagged"
        /\ i < Len(ev_log)
        /\ ev_log[i + 1].kind = "Ok"
        /\ ev_loop = "running"

(***************************************************************************)
(* Claims on the trust graph                                               *)
(***************************************************************************)

\* Whether a weight, in tenths, is a number from -1 to 1.
WithinUnit(weight) == weight \in -10..10

\* C30: add_edge with a weight outside [-1, 1] fails with InvalidTrustWeight
\* and leaves the graph as it was, and whatever add_edge and remove_edge
\* calls came before, every edge of the graph has a weight in [-1, 1].
C30_WeightsWithinUnit ==
    /\ (ret.op = "add_edge" /\ ~WithinUnit(ret.weight)) =>
          /\ ret.kind = "InvalidTrustWeight"
          /\ tg_edges = ret.before
    /\ \A key \in DOMAIN tg_edges : WithinUnit(tg_edges[key].weight)

\* C30: an edge is in the graph, and an add_edge on it with a weight of 1.5
\* has just failed.
C30_Witness ==
    /\ ret.op = "add_edge"
    /\ ret.weight = 15
    /\ ret.kind = "InvalidTrustWeight"
    /\ ret.key \in DOMAIN tg_edges

(***************************************************************************)
(* Claims on the admin API                                                 *)
(***************************************************************************)

\* Whether POST /payments has just been answered.
Answered == ret.op = "send_payment"

\* C31: POST /payments is answered 200 when the payment was dispatched, and
\* 500 when the network layer failed while dispatching it, by an error or
\* by not responding, as for every other transport error.
C31_NetworkFailureIs500 ==
    Answered =>
        /\ ret.network = "Ok" => ret.status = 200
        /\ ret.network \in {"Err", "dropped"} => ret.status = 500
        /\ ret.cause \in {"loop not running", "dropped"} => ret.status = 500

(***************************************************************************)
(* Claims on the full node's shutdown                                      *)
(***************************************************************************)

\* Whether the full node has shut down after spawning the network task:
\* every command sender handed out by the network node has been dropped.
ShutDown ==
    /\ nw_run \in {"spawned", "looping"}
    /\ \A s \in Submitters : ~nw_sub[s].holds

\* C32: once GppnFullNode::shutdown has dropped the network command sender,
\* the spawned network task eventually ends.
C32_ShutdownEndsNetworkTask ==
    ShutDown ~> (nw_run \in {"returned", "aborted"})

(***************************************************************************)
(* Claims on the completeness of the path finder                           *)
(***************************************************************************)

\* The entries of the table that qualify for the query just answered:
\* they support its currency, have the liquidity for its amount, and meet
\* the trust threshold.
Qualifying ==
    { e \in { drt[k] : k \in DOMAIN drt } :
        /\ ret.q.currency \in e.supported_currencies
        /\ e.available_liquidity >= ret.q.amount
        /\ e.trust_score >= pf_config.min_trust_score }

\* The node an entry leads from.
From(e) == from_parts("key", e.next_hop_peer_id)

\* Whether a sequence of entries is a loop-free path from the source of the
\* query to its destination.
IsPath(p) ==
    /\ From(p[1]) = ret.q.source_uri
    /\ p[Len(p)].destination_did = ret.q.dest_uri
    /\ \A i \in 1..(Len(p) - 1) : p[i].destination_did = From(p[i + 1])
    /\ \A i \in 1..Len(p) : p[i].destination_did # ret.q.source_uri
    /\ \A i, j \in 1..Len(p) :
          i # j => p[i].destination_did # p[j].destination_did

\* Whether the table holds a qualifying path of at most max_hops hops.
PathExists ==
    \E n \in 1..pf_config.max_hops :
        \E p \in [1..n -> Qualifying] : IsPath(p)

\* C33: find_routes asked for at least one route returns one whenever the
\* table holds a loop-free path from the source to the destination, of at
\* most max_hops hops, whose entries all qualify.
C33_RouteFoundWhenOneExists ==
    (ret.op = "find_routes" /\ ret.q.max_routes >= 1 /\ PathExists)
        => ret.kind = "Ok"

(***************************************************************************)
(* Claims on the full node's peer set                                      *)
(***************************************************************************)

\* Whether the main loop has handled every event sent so far.
CaughtUp == ev_loop = "running" /\ ev_next = Len(ev_buffer)

\* C34: once the main loop has handled every event sent so far, the peers
\* of NodeState are the connected peers of the network task; and a peer is
\* taken from NodeState only when no connection with it remains.
C34_PeersTrackTheNetwork ==
    [][/\ CaughtUp' => ev_peers' = ev_connected'
       /\ \A peer \in ev_peers \ ev_peers' : ev_established' = 0]_vars

(***************************************************************************)
(* Claims on concurrent confirm and rollback                               *)
(***************************************************************************)

\* What the Confirmed settlements among `ids` add up to on the balance of
\* `did` in `currency`: -value for the sender, +value for the receiver.
RECURSIVE PairsInEffect(_, _, _)
PairsInEffect(did, currency, ids) ==
    IF ids = {} THEN 0
    ELSE LET id == CHOOSE i \in ids : TRUE
             rec == settlements[id]
             value == AsSigned(rec.amount.value)
             counts == rec.status = "Confirmed" /\ rec.amount.currency = currency
         IN  (IF counts /\ rec.receiver_did = did THEN value ELSE 0)
             - (IF counts /\ rec.sender_did = did THEN value ELSE 0)
             + PairsInEffect(did, currency, ids \ {id})

AllReturned == \A t \in Tasks : lg_task[t].pc = "idle"

\* The result and the status that confirm and rollback, run alone, give a
\* settlement found in `status`.
AloneOn(op, status) ==
    IF status \in {"Initiated", "Pending"}
    THEN [kind |-> "Ok", status |-> IF op = "confirm" THEN "Confirmed"
                                    ELSE "RolledBack"]
    ELSE IF op = "rollback" /\ status = "Confirmed"
    THEN [kind |-> "Ok", status |-> "RolledBack"]
    ELSE [kind |-> "InvalidStateTransition", status |-> status]

\* A confirm or a rollback of a settlement of the store ends in this step.
Ends(op, id) ==
    /\ ret' # ret
    /\ ret'.op = op
    /\ ret'.id = id
    /\ id \in DOMAIN settlements

\* C35: no two tasks are inside confirm or rollback of one settlement at a
\* time, every such call ends with the result and the status that the call
\* run alone gives the settlement as it is when the call ends, and when no
\* call is under way every balance is the sum of the pairs of the Confirmed
\* settlements (in the width of the balance): a pair is in effect exactly
\* when its settlement is Confirmed.
C35_SerializedPairIffConfirmed ==
    /\ [](\A t \in Tasks : \A u \in Tasks \ {t} :
             (lg_task[t].pc # "idle" /\ lg_task[u].pc # "idle")
                => lg_task[t].id # lg_task[u].id)
    /\ [][\A op \in {"confirm", "rollback"}, id \in CallIds :
             Ends(op, id) =>
                 /\ ret'.kind = AloneOn(op, settlements[id].status).kind
                 /\ settlements'[id].status
                       = AloneOn(op, settlements[id].status).status]_vars
    /\ [](AllReturned =>
            \A did \in Dids, currency \in Currencies :
                Wrap(get_balance(did, currency))
                  = Wrap(PairsInEffect(did, currency, DOMAIN settlements)))

(***************************************************************************)
(* Claims on relayed advertisements                                        *)
(***************************************************************************)

\* The keys under which `node` holds what `advert` announces.
AnnouncedKeys(node, advert) ==
    { key \in DOMAIN table_of(node) :
          /\ key[2] = advert.advertiser_peer_id
          /\ \E i \in 1..Len(advert.reachable_destinations) :
                advert.reachable_destinations[i].destination_did = key[1] }

\* A node has just ingested an advertisement older than the newest one it
\* had ingested from the same advertiser.
IngestsOlder(node, newer) ==
    /\ ret' # ret
    /\ ret'.op = "relay_ingest"
    /\ ret'.node = node
    /\ ret'.advert.advertiser_did = newer.advertiser_did
    /\ ret'.advert.sequence_number < newer.sequence_number

\* C36: once a node has ingested an advertisement with sequence number n,
\* ingesting an advertisement of the same advertiser with a lower sequence
\* number leaves the entries under the keys of the newer advertisement as
\* they were.
C36_OlderDoesNotOverwrite ==
    [][\A node \in RelayNodes : \A newer \in newest_at(node) :
          IngestsOlder(node, newer) =>
              \A key \in AnnouncedKeys(node, newer) :
                  rl_drt'[node][key] = rl_drt[node][key]]_vars

\* C38: the entry that the n-th node after the announcing one holds for the
\* announcing node, learnt from the node before it, has hop_count n.
C38_HopCountIsChainLength ==
    \A i \in 2..Len(RelayChain) :
        LET key == <<from_parts("key", RelayChain[1]), RelayChain[i - 1]>>
        IN  key \in DOMAIN table_of(RelayChain[i])
               => table_of(RelayChain[i])[key].hop_count = i - 1

(***************************************************************************)
(* Claims on the expiry of a payment                                       *)
(***************************************************************************)

\* The payment was sent the Expired event in one of the states `from`.
ExpiredSentIn(from) ==
    /\ pm_last.called
    /\ pm_last.event = "Expired"
    /\ pm_last.from \in from

ExpiredTaken == pm_last.result = Ok("Expired") /\ pm_state = "Expired"

\* C37 as claimed: the Expired event is accepted in Created, Routed,
\* Accepted and Failed, and takes the payment to Expired.
C37_ExpiredOutsideSettling ==
    ExpiredSentIn({"Created", "Routed", "Accepted", "Failed"}) => ExpiredTaken

\* C37 as amended: the Expired event is accepted in Created, Routed and
\* Accepted, and takes the payment to Expired; in Failed, as in Settling, it
\* is rejected with InvalidStateTransition and the payment keeps its state.
C37_ExpiredBeforeSettling ==
    /\ ExpiredSentIn({"Created", "Routed", "Accepted"}) => ExpiredTaken
    /\ ExpiredSentIn({"Failed", "Settling"}) =>
          /\ IsInvalidStateTransition(pm_last.result)
          /\ pm_state = pm_last.from

\* C37 witness: a payment that failed after it was routed was sent the
\* Expired event.
C37_Witness ==
    /\ ExpiredSentIn({"Failed"})
    /\ pm_steps >= 2

(***************************************************************************)
(* Claims on a network node that is started again                          *)
(***************************************************************************)

\* The owner calls run in this step.
RunCalled == nw_run = "owned" /\ ret' # ret /\ ret'.op = "run"

\* C39: whenever the node has a swarm (start succeeded, and stop was not
\* called since), a call to run enters the event loop and does not return
\* NotStarted, whatever runs, stops and starts came before.
C39_RunAfterStartEntersLoop ==
    [][(RunCalled /\ nw_swarm) =>
          /\ ret'.kind # "NotStarted"
          /\ nw_run' = "awaited"]_vars

(***************************************************************************)
(* Claims on trust attestation                                             *)
(***************************************************************************)

Attested == ret.op = "attest_trust"

\* C40: an AttestTrust command is answered "attested" only if the trust
\* graph then holds the edge from the node's DID to the subject with the
\* score given; a score outside [-1, 1] is answered with status 400 and
\* leaves the edges as they were.
C40_AttestedOnlyIfEdgeAdded ==
    Attested =>
        /\ ret.status = "attested" =>
              /\ ret.key \in DOMAIN tg_edges
              /\ tg_edges[ret.key].weight = ret.weight
        /\ ~in_weight_range(ret.weight) =>
              /\ ret.http = 400
              /\ tg_edges = ret.before

====
